---- MODULE Spec2Model ----
(***************************************************************************)
(* Verification model of the flexible-polyline codec and the time-banded   *)
(* forecast selection of weather-route-map.                                *)
(*                                                                         *)
(* Numbers.  JavaScript bitwise operators work on 32-bit two's complement  *)
(* integers; they are modelled bit-exactly by And32/Or32/Shl32/Sar32/      *)
(* Ushr32/Not32 below.  Fractions are kept exact: a decoded coordinate is  *)
(* an integer numerator over 10^precision, an input coordinate a count of   *)
(* micro-degrees, a precipitation a count of 0.1 mm, a pop a count of       *)
(* hundredths, a rain probability a count of 0.1 %.                         *)
(***************************************************************************)
EXTENDS Integers, Sequences, FiniteSets, TLC

----------------------------------------------------------------------------
(* Bounds of the model                                                     *)

\* longest body (the characters after the header characters) of a wire string
MaxBody == 5
\* longest coordinate list handed to the encoder
MaxCoords == 2
\* longest minutely, hourly and daily arrays of a forecast payload
MaxMinutely == 7
MaxHourly == 3
MaxDaily == 3
\* the longest waypoint list handed to calculateWaypointTimings and to
\* deduplicateWaypoints
MaxWaypoints == 3
\* the longest report of assorted points, and the longest report of
\* identical mild points, handed to analyzeWeatherForTravel
MaxPoints == 2
MaxReport == 39
MaxSigned == 60
MaxCalls == 3
MaxRoutePoints == 3
MaxShows == 3

----------------------------------------------------------------------------
(* JavaScript values and 32-bit integer operators                          *)

\* a JavaScript value that is either a number or undefined
Undefined == [def |-> FALSE, val |-> 0]
Num(n) == [def |-> TRUE, val |-> n]

\* ToInt32 of a value already in the int32 range; undefined converts to 0
ToInt32(v) == IF v.def THEN v.val ELSE 0

\* element i (0-based) of a JavaScript array; out of bounds reads undefined
At(arr, i) == IF i >= 0 /\ i < Len(arr) THEN Num(arr[i + 1]) ELSE Undefined

\* the low 31 bits of an int32, as a natural number
U31(a) == IF a >= 0 THEN a ELSE (a + 2147483647) + 1
\* the sign bit of an int32
SignBit(a) == IF a < 0 THEN 1 ELSE 0
\* the int32 with the given low 31 bits and sign bit
FromBits(low, sign) == IF sign = 1 THEN (low - 2147483647) - 1 ELSE low

RECURSIVE AndNat(_, _)
AndNat(x, y) ==
    IF x = 0 \/ y = 0 THEN 0
    ELSE ((x % 2) * (y % 2)) + 2 * AndNat(x \div 2, y \div 2)

RECURSIVE OrNat(_, _)
OrNat(x, y) ==
    IF x = 0 THEN y
    ELSE IF y = 0 THEN x
    ELSE (IF (x % 2) + (y % 2) > 0 THEN 1 ELSE 0) + 2 * OrNat(x \div 2, y \div 2)

\* a & b
And32(a, b) == FromBits(AndNat(U31(a), U31(b)), SignBit(a) * SignBit(b))
\* a | b
Or32(a, b) ==
    FromBits(OrNat(U31(a), U31(b)), IF SignBit(a) + SignBit(b) > 0 THEN 1 ELSE 0)
\* ~a
Not32(a) == (0 - a) - 1
\* a << n : the shift count is taken modulo 32 and the result wraps to int32
Shl32(a, n) ==
    LET k == n % 32
    IN  IF k = 0 THEN a
        ELSE IF k = 31 THEN FromBits(0, U31(a) % 2)
        ELSE FromBits((U31(a) % (2 ^ (31 - k))) * (2 ^ k),
                      (U31(a) \div (2 ^ (31 - k))) % 2)
\* a >> n : arithmetic shift, count modulo 32
Sar32(a, n) ==
    LET k == n % 32
    IN  IF k = 31 THEN (IF a < 0 THEN 0 - 1 ELSE 0)
        ELSE a \div (2 ^ k)
\* a >>> n for a count n in 1..31 : logical shift, the result is non-negative
Ushr32(a, n) ==
    LET k == n % 32
    IN  (U31(a) \div (2 ^ k)) + SignBit(a) * (2 ^ (31 - k))

\* Math.round of the fraction n / d (d > 0): the nearest integer, halves up
RoundDiv(n, d) == ((2 * n) + d) \div (2 * d)

Abs(x) == IF x < 0 THEN 0 - x ELSE x
Min(a, b) == IF a < b THEN a ELSE b
Max(a, b) == IF a > b THEN a ELSE b

----------------------------------------------------------------------------
(* FlexPolylineDecoder                                                     *)

\* a thrown Error with the given message, and a normal return
Throw(msg) == [ok |-> FALSE, err |-> msg, val |-> <<>>]
Return(v) == [ok |-> TRUE, err |-> "", val |-> v]

DECODING_TABLE ==
    << 62, -1, -1, 52, 53, 54, 55, 56, 57, 58, 59, 60, 61, -1, -1, -1, -1, -1, -1, -1,
       0, 1, 2, 3, 4, 5, 6, 7, 8, 9, 10, 11, 12, 13, 14, 15, 16, 17, 18, 19, 20, 21,
       22, 23, 24, 25, -1, -1, -1, -1, 63, -1, 26, 27, 28, 29, 30, 31, 32, 33, 34, 35,
       36, 37, 38, 39, 40, 41, 42, 43, 44, 45, 46, 47, 48, 49, 50, 51 >>

\* decodeChar: the table entry at charCode - 45, undefined outside the table
decodeChar(charCode) ==
    IF charCode - 45 >= 0 /\ charCode - 45 < Len(DECODING_TABLE)
    THEN Num(DECODING_TABLE[(charCode - 45) + 1])
    ELSE Undefined

\* the forEach of decodeUnsignedValues from character k on, with the
\* accumulators result, shift and resList; yields the final accumulators
RECURSIVE decodeLoop(_, _, _, _, _)
decodeLoop(encoded, k, result, shift, resList) ==
    IF k > Len(encoded) THEN [result |-> result, shift |-> shift, resList |-> resList]
    ELSE LET value == ToInt32(decodeChar(encoded[k]))
             acc == Or32(result, Shl32(And32(value, 31), shift))
         IN  IF And32(value, 32) = 0
             THEN decodeLoop(encoded, k + 1, 0, 0, Append(resList, acc))
             ELSE decodeLoop(encoded, k + 1, acc, shift + 5, resList)

\* decodeUnsignedValues without the check of a pending continuation
decodeUnsignedValues_noShiftCheck(encoded) ==
    Return(decodeLoop(encoded, 1, 0, 0, <<>>).resList)

decodeUnsignedValues(encoded) ==
    LET fin == decodeLoop(encoded, 1, 0, 0, <<>>)
    IN  IF fin.shift > 0 THEN Throw("Invalid encoding") ELSE Return(fin.resList)

FORMAT_VERSION == 1

\* decodeHeader without the version gate
decodeHeader_noVersionGate(version, encodedHeader) ==
    LET headerNumber == ToInt32(encodedHeader)
    IN  Return([precision |-> And32(headerNumber, 15),
                thirdDim |-> And32(Sar32(headerNumber, 4), 7),
                thirdDimPrecision |-> And32(Sar32(headerNumber, 7), 15)])

\* decodeHeader on two JavaScript values (either may be undefined)
decodeHeader(version, encodedHeader) ==
    IF ~(version.def /\ version.val = FORMAT_VERSION)
    THEN Throw("Invalid format version")
    ELSE LET headerNumber == ToInt32(encodedHeader)
         IN  Return([precision |-> And32(headerNumber, 15),
                     thirdDim |-> And32(Sar32(headerNumber, 4), 7),
                     thirdDimPrecision |-> And32(Sar32(headerNumber, 7), 15)])

toSigned(v) ==
    LET val == ToInt32(v)
        res == IF And32(val, 1) # 0 THEN Not32(val) ELSE val
    IN  Sar32(res, 1)

\* the for loop of decodePolyline from index i on; a point is the tuple of
\* the accumulated integers, to be read as lat/factorDegree, lng/factorDegree
\* (and z/factorZ); yields the final index and the points
RECURSIVE polylineLoop(_, _, _, _, _, _, _)
polylineLoop(decoder, thirdDim, i, lastLat, lastLng, lastZ, res) ==
    IF ~(i < Len(decoder)) THEN [i |-> i, res |-> res]
    ELSE LET lat == lastLat + toSigned(At(decoder, i))
             lng == lastLng + toSigned(At(decoder, i + 1))
         IN  IF thirdDim # 0
             THEN LET z == lastZ + toSigned(At(decoder, i + 2))
                  IN  polylineLoop(decoder, thirdDim, i + 3, lat, lng, z,
                                   Append(res, <<lat, lng, z>>))
             ELSE polylineLoop(decoder, thirdDim, i + 2, lat, lng, lastZ,
                               Append(res, <<lat, lng>>))

\* decodePolyline without the check of the final index
decodePolylineFrom_noEndingCheck(decoder) ==
    IF ~decoder.ok THEN decoder
    ELSE LET header == decodeHeader(At(decoder.val, 0), At(decoder.val, 1))
         IN  IF ~header.ok THEN header
             ELSE LET fin == polylineLoop(decoder.val, header.val.thirdDim,
                                          2, 0, 0, 0, <<>>)
                  IN  Return([precision |-> header.val.precision,
                              thirdDimPrecision |-> header.val.thirdDimPrecision,
                              thirdDim |-> header.val.thirdDim,
                              points |-> fin.res])

\* decodePolyline after its first statement, decoder being the outcome of
\* decodeUnsignedValues; a normal return carries the points and the exponents
\* of the divisors factorDegree = 10^precision, factorZ = 10^thirdDimPrecision
decodePolylineFrom(decoder) ==
    IF ~decoder.ok THEN decoder
    ELSE LET header == decodeHeader(At(decoder.val, 0), At(decoder.val, 1))
         IN  IF ~header.ok THEN header
             ELSE LET fin == polylineLoop(decoder.val, header.val.thirdDim,
                                          2, 0, 0, 0, <<>>)
                  IN  IF fin.i # Len(decoder.val)
                      THEN Throw("Invalid encoding. Premature ending reached")
                      ELSE Return([precision |-> header.val.precision,
                                   thirdDimPrecision |-> header.val.thirdDimPrecision,
                                   thirdDim |-> header.val.thirdDim,
                                   points |-> fin.res])

decodePolyline(encoded) == decodePolylineFrom(decodeUnsignedValues(encoded))

\* FlexPolylineDecoder.decode
FlexDecode(encoded) == decodePolyline(encoded)

----------------------------------------------------------------------------
(* APIManager.encodeFlexPolyline                                           *)

\* String.fromCharCode: the code unit is taken modulo 2^16
fromCharCode(n) == n % 65536

\* the while loop and the final character of encodeUnsignedVarintHERE; in
\* `(value & 0x1F) | 0x20 + 63` the sum binds tighter than the bitwise or
RECURSIVE encodeUnsignedVarintHERE(_)
encodeUnsignedVarintHERE(value) ==
    IF value >= 32
    THEN <<fromCharCode(Or32(And32(value, 31), 32 + 63))>>
         \o encodeUnsignedVarintHERE(Ushr32(value, 5))
    ELSE <<fromCharCode(value + 63)>>

\* the zig-zag mapping without the sign bit for negative values
zigzagHERE_noSignBit(value) ==
    IF value < 0 THEN Shl32((0 - value) - 1, 1) ELSE Shl32(value, 1)

\* the zig-zag mapping of encodeSignedVarintHERE
zigzagHERE(value) ==
    IF value < 0 THEN Or32(Shl32((0 - value) - 1, 1), 1) ELSE Shl32(value, 1)

encodeSignedVarintHERE(value) == encodeUnsignedVarintHERE(zigzagHERE(value))

\* the for loop of encodeFlexPolyline from coordinate k on; a coordinate is
\* <<lat, lng>> in micro-degrees, so coord * 100000 is the fraction c / 10
RECURSIVE encodeLoop(_, _, _, _)
encodeLoop(coordinates, k, prevLat, prevLng) ==
    IF k > Len(coordinates) THEN <<>>
    ELSE LET lat == RoundDiv(coordinates[k][1], 10)
             lng == RoundDiv(coordinates[k][2], 10)
         IN  encodeSignedVarintHERE(lat - prevLat)
             \o encodeSignedVarintHERE(lng - prevLng)
             \o encodeLoop(coordinates, k + 1, lat, lng)

encodeFlexPolyline(coordinates) ==
    IF Len(coordinates) = 0 THEN <<>>
    ELSE LET precision == 5
             version == 1
             headerByte == Or32(Shl32(version, 4), precision)
         IN  <<fromCharCode(headerByte + 63)>> \o encodeLoop(coordinates, 1, 0, 0)

----------------------------------------------------------------------------
(* RouteManager.decodePolyline and validateAndFixCoordinates               *)

\* 10^p * k compared with n without leaving the 32-bit range: n / 10^p >= k
\* and n / 10^p <= k for |k| <= 180 and an int32 n
GeqScaled(n, p, k) == IF p >= 8 THEN (k < 0 \/ (k = 0 /\ n >= 0)) ELSE n >= k * (10 ^ p)
LeqScaled(n, p, k) == IF p >= 8 THEN (k > 0 \/ (k = 0 /\ n <= 0)) ELSE n <= k * (10 ^ p)

\* the range test of validateAndFixCoordinates on the point n / 10^p
inRange(pt, p) ==
    ~(  ~GeqScaled(pt[1], p, 0 - 90) \/ ~LeqScaled(pt[1], p, 90)
     \/ ~GeqScaled(pt[2], p, 0 - 180) \/ ~LeqScaled(pt[2], p, 180))

\* the loop of validateAndFixCoordinates without the range test
RECURSIVE validLoop_unfiltered(_, _, _)
validLoop_unfiltered(points, p, k) ==
    IF k > Len(points) THEN <<>>
    ELSE <<<<points[k][1], points[k][2]>>>> \o validLoop_unfiltered(points, p, k + 1)

\* the for loop of validateAndFixCoordinates: the valid [lat, lng] pairs
RECURSIVE validLoop(_, _, _)
validLoop(points, p, k) ==
    IF k > Len(points) THEN <<>>
    ELSE IF ~inRange(points[k], p) THEN validLoop(points, p, k + 1)
    ELSE <<<<points[k][1], points[k][2]>>>> \o validLoop(points, p, k + 1)

\* validateAndFixCoordinates on the decoder's value
validateAndFixCoordinates(decoded) ==
    IF Len(decoded.points) = 0 THEN Throw("Invalid coordinates array")
    ELSE LET validCoordinates == validLoop(decoded.points, decoded.precision, 1)
         IN  IF Len(validCoordinates) = 0
             THEN Throw("No valid coordinates found after validation")
             ELSE Return(validCoordinates)

\* what RouteManager.decodePolyline hands to its caller: null or a list of
\* [lat, lng] pairs (numerators over 10^precision)
RouteNull == [kind |-> "null", precision |-> 0, points |-> <<>>]
RouteList(p, pts) == [kind |-> "list", precision |-> p, points |-> pts]

\* decodePolyline answering a decoder failure with an empty list
RouteDecodePolyline_emptyList(polyline) ==
    IF Len(polyline) = 0 THEN RouteNull
    ELSE LET result == FlexDecode(polyline)
         IN  IF ~result.ok THEN RouteList(0, <<>>)
             ELSE IF Len(result.val.points) > 0
             THEN LET valid == validateAndFixCoordinates(result.val)
                  IN  IF valid.ok THEN RouteList(result.val.precision, valid.val)
                      ELSE RouteNull
             ELSE RouteNull

RouteDecodePolyline(polyline) ==
    IF Len(polyline) = 0 THEN RouteNull
    ELSE LET result == FlexDecode(polyline)
         IN  IF ~result.ok THEN RouteNull
             ELSE IF Len(result.val.points) > 0
             THEN LET valid == validateAndFixCoordinates(result.val)
                  IN  IF valid.ok THEN RouteList(result.val.precision, valid.val)
                      ELSE RouteNull
             ELSE RouteNull

----------------------------------------------------------------------------
(* APIManager: the decoder entry point with its basic fallback             *)

\* result.polyline of what FlexPolylineDecoder.decode returns: decode
\* returns a plain array, which has no property of that name
polylineOf(result) == Undefined

\* one do-while loop of the basic decoder from the 0-based index on: yields
\* the index after the loop and the accumulated result
RECURSIVE basicVarint(_, _, _, _)
basicVarint(encoded, index, result, shift) ==
    IF index >= Len(encoded) THEN [index |-> index, result |-> result]
    ELSE LET b == encoded[index + 1] - 63
             acc == result + Shl32(And32(b, 31), shift)
         IN  IF b >= 32 THEN basicVarint(encoded, index + 1, acc, shift + 5)
             ELSE [index |-> index + 1, result |-> acc]

\* (result & 1) ? ~(result >> 1) : (result >> 1)
basicSigned(result) ==
    IF And32(result, 1) # 0 THEN Not32(Sar32(result, 1)) ELSE Sar32(result, 1)

\* the range test on lat * 1e-5 and lng * 1e-5: the floating-point products
\* of 9000000 and of 18000000 with 1e-5 are 90.00000000000001 and
\* 180.00000000000003, so the ends of the ranges fail the test
basicValid(lat, lng) ==
    /\ lat > 0 - 9000000 /\ lat < 9000000
    /\ lng > 0 - 18000000 /\ lng < 18000000

\* the while loop of the basic decoder from the 0-based index on
RECURSIVE basicLoop(_, _, _, _, _)
basicLoop(encoded, index, lat, lng, coords) ==
    IF ~(index < Len(encoded)) THEN coords
    ELSE LET first == basicVarint(encoded, index, 1, 0)
             lat2 == lat + basicSigned(first.result)
         IN  IF first.index >= Len(encoded) THEN coords
             ELSE LET second == basicVarint(encoded, first.index, 1, 0)
                      lng2 == lng + basicSigned(second.result)
                  IN  basicLoop(encoded, second.index, lat2, lng2,
                                IF basicValid(lat2, lng2)
                                THEN Append(coords, <<lat2, lng2>>)
                                ELSE coords)

\* APIManager.decodeFlexPolyline(encoded) with window.FlexPolylineDecoder
\* installed and no window.flexpolyline: a list of points in units of 1e-5
decodeFlexPolyline(encoded) ==
    IF Len(encoded) = 0 THEN RouteList(5, <<>>)
    ELSE LET result == FlexDecode(encoded)
         IN  IF result.ok /\ polylineOf(result).def
             THEN RouteList(result.val.precision, result.val.points)
             ELSE RouteList(5, basicLoop(encoded, 1, 0, 0, <<>>))

----------------------------------------------------------------------------
(* WeatherManager: band selection and sample building                      *)
(*                                                                         *)
(* A JavaScript object is a record; a property that is absent is a field   *)
(* that is not in the record's domain.  rain and snow objects are          *)
(* functions on the keys "1h" and "3h".                                    *)

Has(obj, f) == f \in DOMAIN obj
NoFields == [f \in {} |-> 0]
\* the property name |-> value when cond holds, no property otherwise
Opt(cond, name, value) == IF cond THEN name :> value ELSE NoFields

\* obj.rain?.[key] || 0 style reads: the number, or 0 when it is absent
\* (a present 0 is falsy as well)
SubOr0(obj, f, key) == IF Has(obj, f) /\ key \in DOMAIN obj[f] THEN obj[f][key] ELSE 0
HasSub(obj, f, key) == Has(obj, f) /\ key \in DOMAIN obj[f]
FieldOr0(obj, f) == IF Has(obj, f) THEN obj[f] ELSE 0

\* Math.round((w || 0) * 3.6), w an integer count of m/s
KmhRounded(w) == RoundDiv(w * 36, 10)
\* (v || 0) / 1000, kept as the fraction of metres over 1000
Km(v) == [num |-> v, den |-> 1000]

\* current.rain?.['1h'] || current.rain?.['3h'] || 0
currentPrecipitation(current) ==
    IF SubOr0(current, "rain", "1h") # 0 THEN SubOr0(current, "rain", "1h")
    ELSE SubOr0(current, "rain", "3h")

\* branch 1 of selectWeatherUpTo48Hours (diff < 300)
currentBranch(current) ==
    LET precipitation == currentPrecipitation(current)
    IN  [temperature |-> current.temp,
         description |-> current.weather[1].description,
         humidity |-> current.humidity,
         windSpeed |-> KmhRounded(FieldOr0(current, "wind_speed")),
         visibility |-> Km(FieldOr0(current, "visibility")),
         timestamp |-> current.dt,
         isCurrentData |-> TRUE,
         precipitation |-> precipitation,
         rainProbability |-> IF precipitation > 0 THEN 900 ELSE 0]
        @@ Opt(Has(current, "feels_like"), "feelsLike", FieldOr0(current, "feels_like"))
        @@ Opt(Has(current, "wind_gust"), "windGust", KmhRounded(FieldOr0(current, "wind_gust")))
        @@ Opt(Has(current, "wind_deg"), "windDeg", FieldOr0(current, "wind_deg"))
        @@ Opt(HasSub(current, "snow", "1h") \/ HasSub(current, "snow", "3h"), "snow",
               IF HasSub(current, "snow", "1h") THEN SubOr0(current, "snow", "1h")
               ELSE SubOr0(current, "snow", "3h"))
        @@ Opt(HasSub(current, "rain", "1h") \/ HasSub(current, "rain", "3h"), "rain",
               IF HasSub(current, "rain", "1h") THEN SubOr0(current, "rain", "1h")
               ELSE SubOr0(current, "rain", "3h"))

\* _formatCurrent(current, nextHour); nextHour is a JavaScript value
formatCurrent(current, nextHour) ==
    [temperature |-> current.temp,
     description |-> current.weather[1].description,
     humidity |-> current.humidity,
     windSpeed |-> KmhRounded(FieldOr0(current, "wind_speed")),
     visibility |-> Km(FieldOr0(current, "visibility")),
     precipitation |-> currentPrecipitation(current),
     rainProbability |-> 10 * (IF nextHour.def THEN FieldOr0(nextHour.val, "pop") ELSE 0),
     timestamp |-> current.dt,
     isCurrentData |-> TRUE]
    @@ Opt(Has(current, "feels_like"), "feelsLike", FieldOr0(current, "feels_like"))
    @@ Opt(Has(current, "wind_gust"), "windGust", KmhRounded(FieldOr0(current, "wind_gust")))
    @@ Opt(Has(current, "wind_deg"), "windDeg", FieldOr0(current, "wind_deg"))

\* the sum of precipitation over minutely[a..b] (0-based, inclusive)
RECURSIVE precipSumOf(_, _, _)
precipSumOf(minutely, a, b) ==
    IF a > b THEN 0
    ELSE FieldOr0(minutely[a + 1], "precipitation") + precipSumOf(minutely, a + 1, b)

\* the number of entries of minutely[a..b] with precipitation > 0
RECURSIVE minutesWithRainOf(_, _, _)
minutesWithRainOf(minutely, a, b) ==
    IF a > b THEN 0
    ELSE (IF FieldOr0(minutely[a + 1], "precipitation") > 0 THEN 1 ELSE 0)
         + minutesWithRainOf(minutely, a + 1, b)

\* minutely[minutelyIndex] || minutely[0], as a JavaScript value
targetMinuteOf(minutely, minutelyIndex) ==
    IF minutelyIndex >= 0 /\ minutelyIndex < Len(minutely)
    THEN [def |-> TRUE, val |-> minutely[minutelyIndex + 1]]
    ELSE IF Len(minutely) > 0 THEN [def |-> TRUE, val |-> minutely[1]]
    ELSE [def |-> FALSE, val |-> NoFields]

\* the rain probability of the minute branch, in 0.1 %
minuteRainProbability(minutely, minutelyIndex, precipitation) ==
    LET startIdx == Max(0, minutelyIndex - 15)
        endIdx == Min(Len(minutely) - 1, minutelyIndex + 15)
        precipSum == precipSumOf(minutely, startIdx, endIdx)
        minutesWithRain == minutesWithRainOf(minutely, startIdx, endIdx)
    IN  IF precipitation > 0 THEN Min(950, 600 + (precipitation * 15))
        ELSE IF precipSum > 10 THEN Min(800, 250 + (precipSum * 12))
        ELSE IF minutesWithRain > 5 THEN Min(600, 150 + (minutesWithRain * 30))
        ELSE IF minutesWithRain > 0 THEN Min(400, minutesWithRain * 40)
        ELSE 0

\* branch 2 of selectWeatherUpTo48Hours (300 <= diff <= 3600, minutely truthy)
minuteBranch(apiResponse, diff) ==
    LET minutelyIndex == diff \div 60
        targetMinute == targetMinuteOf(apiResponse.minutely, minutelyIndex)
        minutesAhead == diff \div 60
        source == IF minutesAhead < 30 THEN apiResponse.current
                  ELSE IF Has(apiResponse, "hourly") /\ Len(apiResponse.hourly) >= 2
                       THEN apiResponse.hourly[2]
                       ELSE apiResponse.current
    IN  IF ~targetMinute.def THEN Throw("TypeError")
        ELSE LET precipitation == FieldOr0(targetMinute.val, "precipitation")
             IN  Return(
                 [temperature |-> source.temp,
                  description |-> source.weather[1].description,
                  humidity |-> source.humidity,
                  windSpeed |-> KmhRounded(FieldOr0(source, "wind_speed")),
                  visibility |-> Km(FieldOr0(source, "visibility")),
                  timestamp |-> targetMinute.val.dt,
                  isCurrentData |-> FALSE,
                  precipitation |-> precipitation,
                  rainProbability |-> minuteRainProbability(apiResponse.minutely,
                                                            minutelyIndex, precipitation)]
                 @@ Opt(Has(source, "wind_gust"), "windGust", KmhRounded(FieldOr0(source, "wind_gust")))
                 @@ Opt(Has(source, "wind_deg"), "windDeg", FieldOr0(source, "wind_deg"))
                 @@ Opt(HasSub(source, "snow", "1h"), "snow", SubOr0(source, "snow", "1h"))
                 @@ Opt(HasSub(source, "rain", "1h"), "rain", SubOr0(source, "rain", "1h"))
                 @@ Opt(Has(source, "feels_like"), "feelsLike", FieldOr0(source, "feels_like")))

\* the search loop of branch 3: indexes (1-based, 0 for null) of prevHour and
\* nextHour; the loop stops at the first entry later than the target
RECURSIVE hourSearch(_, _, _, _)
hourSearch(hourly, targetTimestamp, i, prevHour) ==
    IF i > Len(hourly) THEN [prevHour |-> prevHour, nextHour |-> 0]
    ELSE IF hourly[i].dt > targetTimestamp THEN [prevHour |-> prevHour, nextHour |-> i]
    ELSE hourSearch(hourly, targetTimestamp, i + 1, i)

formatHourlyData(chosen) ==
    [temperature |-> chosen.temp,
     description |-> chosen.weather[1].description,
     humidity |-> chosen.humidity,
     windSpeed |-> KmhRounded(FieldOr0(chosen, "wind_speed")),
     visibility |-> Km(FieldOr0(chosen, "visibility")),
     precipitation |-> SubOr0(chosen, "rain", "1h"),
     rainProbability |-> 10 * FieldOr0(chosen, "pop"),
     timestamp |-> chosen.dt,
     isCurrentData |-> FALSE]
    @@ Opt(Has(chosen, "feels_like"), "feelsLike", FieldOr0(chosen, "feels_like"))
    @@ Opt(Has(chosen, "wind_gust"), "windGust", KmhRounded(FieldOr0(chosen, "wind_gust")))
    @@ Opt(Has(chosen, "wind_deg"), "windDeg", FieldOr0(chosen, "wind_deg"))
    @@ Opt(HasSub(chosen, "snow", "1h"), "snow", SubOr0(chosen, "snow", "1h"))
    @@ Opt(HasSub(chosen, "rain", "1h"), "rain", SubOr0(chosen, "rain", "1h"))

\* hourChoice taking the later entry from 30 whole minutes on
hourChoice_geq30(hourly, targetTimestamp) ==
    LET found == hourSearch(hourly, targetTimestamp, 1, 0)
    IN  IF found.prevHour # 0 /\ found.nextHour # 0
        THEN LET minutesIntoNextHour ==
                     (targetTimestamp - hourly[found.prevHour].dt) \div 60
                 useNext == minutesIntoNextHour >= 30
             IN  IF useNext THEN found.nextHour ELSE found.prevHour
        ELSE IF found.prevHour # 0 THEN found.prevHour
        ELSE found.nextHour

\* the index of the hourly entry branch 3 formats, 0 when it formats none
hourChoice(hourly, targetTimestamp) ==
    LET found == hourSearch(hourly, targetTimestamp, 1, 0)
    IN  IF found.prevHour # 0 /\ found.nextHour # 0
        THEN LET minutesIntoNextHour ==
                     (targetTimestamp - hourly[found.prevHour].dt) \div 60
                 useNext == minutesIntoNextHour > 30
             IN  IF useNext THEN found.nextHour ELSE found.prevHour
        ELSE IF found.prevHour # 0 THEN found.prevHour
        ELSE found.nextHour

\* the fallback `_formatCurrent(apiResponse.current, apiResponse.hourly[0])`
currentFallback(apiResponse) ==
    IF ~Has(apiResponse, "hourly") THEN Throw("TypeError")
    ELSE Return(formatCurrent(apiResponse.current,
                              IF Len(apiResponse.hourly) > 0
                              THEN [def |-> TRUE, val |-> apiResponse.hourly[1]]
                              ELSE [def |-> FALSE, val |-> NoFields]))

\* selectWeatherUpTo48Hours with the first band reaching up to 300 s inclusive
selectWeatherUpTo48Hours_leq300(apiResponse, targetTimestamp) ==
    IF ~Has(apiResponse, "current") THEN Throw("TypeError")
    ELSE LET now == apiResponse.current.dt
             diff == targetTimestamp - now
         IN  IF diff <= 300 THEN Return(currentBranch(apiResponse.current))
             ELSE IF diff >= 300 /\ diff <= 3600 /\ Has(apiResponse, "minutely")
             THEN minuteBranch(apiResponse, diff)
             ELSE IF Has(apiResponse, "hourly") /\ Len(apiResponse.hourly) > 0
                     /\ hourChoice(apiResponse.hourly, targetTimestamp) # 0
             THEN Return(formatHourlyData(
                      apiResponse.hourly[hourChoice(apiResponse.hourly, targetTimestamp)]))
             ELSE currentFallback(apiResponse)

selectWeatherUpTo48Hours(apiResponse, targetTimestamp) ==
    IF ~Has(apiResponse, "current") THEN Throw("TypeError")
    ELSE LET now == apiResponse.current.dt
             diff == targetTimestamp - now
         IN  IF diff < 300 THEN Return(currentBranch(apiResponse.current))
             ELSE IF diff >= 300 /\ diff <= 3600 /\ Has(apiResponse, "minutely")
             THEN minuteBranch(apiResponse, diff)
             ELSE IF Has(apiResponse, "hourly") /\ Len(apiResponse.hourly) > 0
                     /\ hourChoice(apiResponse.hourly, targetTimestamp) # 0
             THEN Return(formatHourlyData(
                      apiResponse.hourly[hourChoice(apiResponse.hourly, targetTimestamp)]))
             ELSE currentFallback(apiResponse)

\* the search loop of selectWeatherAfter48Hours from index i (1-based) on
RECURSIVE closestDayFrom(_, _, _, _, _)
closestDayFrom(daily, targetTimestamp, i, closestDay, minDiff) ==
    IF i > Len(daily) THEN closestDay
    ELSE LET diff == Abs(targetTimestamp - daily[i].dt)
         IN  IF diff < minDiff
             THEN closestDayFrom(daily, targetTimestamp, i + 1, i, diff)
             ELSE closestDayFrom(daily, targetTimestamp, i + 1, closestDay, minDiff)

selectWeatherAfter48Hours(apiResponse, targetTimestamp) ==
    IF ~Has(apiResponse, "daily") \/ Len(apiResponse.daily) = 0
    THEN currentFallback(apiResponse)
    ELSE LET daily == apiResponse.daily
             closestDay == daily[closestDayFrom(daily, targetTimestamp, 2, 1,
                                                Abs(targetTimestamp - daily[1].dt))]
         IN  Return(
             [temperature |-> closestDay.temp.day,
              description |-> closestDay.weather[1].description,
              humidity |-> closestDay.humidity,
              windSpeed |-> KmhRounded(FieldOr0(closestDay, "wind_speed")),
              precipitation |-> FieldOr0(closestDay, "rain"),
              rainProbability |-> 10 * FieldOr0(closestDay, "pop"),
              timestamp |-> closestDay.dt,
              isCurrentData |-> FALSE]
             @@ Opt(Has(closestDay, "feels_like") /\ Has(closestDay.feels_like, "day"),
                    "feelsLike", closestDay.feels_like.day)
             @@ Opt(Has(closestDay, "wind_gust"), "windGust",
                    KmhRounded(FieldOr0(closestDay, "wind_gust")))
             @@ Opt(Has(closestDay, "wind_deg"), "windDeg", FieldOr0(closestDay, "wind_deg")))

\* generateDemoWeatherPoint: every draw of Math.random is a free choice; the
\* draws are cut down to two values per field; clock is Date.now() / 1000
DemoPoints(clock) ==
    { [temperature |-> t,
       description |-> d,
       humidity |-> 50,
       windSpeed |-> 5,
       visibility |-> Km(8000),
       precipitation |-> p,
       rainProbability |-> 10 * 37,
       feelsLike |-> 12,
       timestamp |-> clock,
       isCurrentData |-> TRUE]
      @@ Opt(g, "windGust", 8) @@ Opt(w, "windDeg", 180) :
         t \in {10, 24}, d \in {"Clear sky", "Light rain"}, p \in {0, 30},
         g \in BOOLEAN, w \in BOOLEAN }

\* getWeatherAtPoint sending the instant 48 h ahead to the daily selection
getWeatherAtPointOutcomes_lt48h(response, targetTime, clock) ==
    LET timestamp == IF targetTime.def THEN targetTime.val ELSE clock
        tried ==
            IF Has(response, "rejected") THEN Throw("Failed to fetch")
            ELSE IF ~response.ok THEN Throw("Weather API error")
            ELSE IF ~Has(response.json, "current") THEN Throw("TypeError")
            ELSE LET json == response.json
                     now == json.current.dt
                 IN  IF timestamp - now < 3600 * 48
                     THEN selectWeatherUpTo48Hours(json, timestamp)
                     ELSE selectWeatherAfter48Hours(json, timestamp)
    IN  IF tried.ok
        THEN { [synthetic |-> FALSE, data |-> tried.val, cached |-> TRUE,
                cacheKey |-> timestamp] }
        ELSE { [synthetic |-> TRUE, data |-> demo, cached |-> FALSE,
                cacheKey |-> timestamp] : demo \in DemoPoints(clock) }

\* getWeatherAtPoint whose catch block hands back nothing
getWeatherAtPointOutcomes_noDemo(response, targetTime, clock) ==
    LET timestamp == IF targetTime.def THEN targetTime.val ELSE clock
        tried ==
            IF Has(response, "rejected") THEN Throw("Failed to fetch")
            ELSE IF ~response.ok THEN Throw("Weather API error")
            ELSE IF ~Has(response.json, "current") THEN Throw("TypeError")
            ELSE LET json == response.json
                     now == json.current.dt
                 IN  IF timestamp - now <= 3600 * 48
                     THEN selectWeatherUpTo48Hours(json, timestamp)
                     ELSE selectWeatherAfter48Hours(json, timestamp)
    IN  IF tried.ok
        THEN { [synthetic |-> FALSE, data |-> tried.val, cached |-> TRUE,
                cacheKey |-> timestamp] }
        ELSE { [synthetic |-> TRUE, data |-> NoFields, cached |-> FALSE,
                cacheKey |-> timestamp] }

\* the outcome of getWeatherAtPoint: the sample handed to the caller, with
\* the note whether it is the synthetic one of the catch block, and the
\* cache entry written (cacheKey is reduced to the timestamp: one point)
getWeatherAtPointOutcomes(response, targetTime, clock) ==
    LET timestamp == IF targetTime.def THEN targetTime.val ELSE clock
        tried ==
            IF Has(response, "rejected") THEN Throw("Failed to fetch")
            ELSE IF ~response.ok THEN Throw("Weather API error")
            ELSE IF ~Has(response.json, "current") THEN Throw("TypeError")
            ELSE LET json == response.json
                     now == json.current.dt
                 IN  IF timestamp - now <= 3600 * 48
                     THEN selectWeatherUpTo48Hours(json, timestamp)
                     ELSE selectWeatherAfter48Hours(json, timestamp)
    IN  IF tried.ok
        THEN { [synthetic |-> FALSE, data |-> tried.val, cached |-> TRUE,
                cacheKey |-> timestamp] }
        ELSE { [synthetic |-> TRUE, data |-> demo, cached |-> FALSE,
                cacheKey |-> timestamp] : demo \in DemoPoints(clock) }

----------------------------------------------------------------------------
(* RouteManager: arrival times of the waypoints                            *)

\* calculateWaypointTimings with progress by position only
\* calculateDistance for two points of one meridian, in whole metres: with
\* dLon = 0 the haversine formula gives R * |dLat| in radians, that is
\* 0.11119 m for a millionth of a degree; a coordinate is <<lat, lng>> in
\* millionths of a degree
calculateDistance(coord1, coord2) ==
    RoundDiv(Abs(coord2[1] - coord1[1]) * 11119, 100000)

\* calculateDistanceFromStart: the loop from i on (0-based)
RECURSIVE distanceLoop(_, _, _)
distanceLoop(coordinates, i, targetIndex) ==
    IF ~(i < targetIndex /\ i < Len(coordinates) - 1) THEN 0
    ELSE calculateDistance(coordinates[i + 1], coordinates[i + 2])
         + distanceLoop(coordinates, i + 1, targetIndex)

calculateDistanceFromStart(coordinates, targetIndex) ==
    distanceLoop(coordinates, 0, targetIndex)

\* Math.ceil of n / d for n >= 0, d > 0
CeilDiv(n, d) == (n + (d - 1)) \div d

\* extractWaypointsFromRouteSingleMode(coordinates, totalDistance)
extractWaypointsFromRouteSingleMode(coordinates, totalDistance) ==
    IF Len(coordinates) = 0 THEN <<>>
    ELSE LET numWaypoints == Max(3, CeilDiv(totalDistance, 1000))
             step == Max(1, Len(coordinates) \div (numWaypoints - 1))
             last == Len(coordinates) - 1
         IN  [k \in 1..numWaypoints |->
                IF k = 1
                THEN [lat |-> coordinates[1][1], lng |-> coordinates[1][2],
                      index |-> 0, distance |-> 0, type |-> "origin"]
                ELSE IF k = numWaypoints
                THEN [lat |-> coordinates[last + 1][1], lng |-> coordinates[last + 1][2],
                      index |-> last, distance |-> totalDistance,
                      type |-> "destination"]
                ELSE LET index == Min((k - 1) * step, last)
                     IN  [lat |-> coordinates[index + 1][1],
                          lng |-> coordinates[index + 1][2],
                          index |-> index,
                          distance |-> calculateDistanceFromStart(coordinates, index),
                          type |-> "intermediate"]]

calculateWaypointTimings_byIndex(waypoints, totalDuration, departureTime) ==
    LET departureTimestamp == departureTime \div 1000
        totalDurationSeconds == IF totalDuration.def THEN totalDuration.val ELSE 0
        n == Len(waypoints)
    IN  [k \in 1..n |->
            LET progress == [num |-> k - 1, den |-> Max(1, n - 1)]
            IN  waypoints[k]
                @@ [estimatedArrivalTime |->
                        departureTimestamp
                        + RoundDiv(totalDurationSeconds * progress.num, progress.den),
                    progress |-> progress]]

\* calculateWaypointTimings(waypoints, totalDuration, departureTime):
\* departureTime is the Date in milliseconds, totalDuration a JavaScript
\* value; progress is kept as the fraction num/den and Math.round is taken
\* of the exact product
calculateWaypointTimings(waypoints, totalDuration, departureTime) ==
    LET departureTimestamp == departureTime \div 1000
        totalDurationSeconds == IF totalDuration.def THEN totalDuration.val ELSE 0
        n == Len(waypoints)
    IN  [k \in 1..n |->
            LET waypoint == waypoints[k]
                progress ==
                    IF Has(waypoint, "distance") /\ Has(waypoints[n], "distance")
                       /\ waypoints[n].distance > 0
                    THEN [num |-> waypoint.distance, den |-> waypoints[n].distance]
                    ELSE [num |-> k - 1, den |-> Max(1, n - 1)]
            IN  waypoint
                @@ [estimatedArrivalTime |->
                        departureTimestamp
                        + RoundDiv(totalDurationSeconds * progress.num, progress.den),
                    progress |-> progress]]

----------------------------------------------------------------------------
(* RouteManager: deduplication of the waypoints of a report                *)
(*                                                                         *)
(* A string is a sequence of units.  The glyphs that prefix a location are *)
(* several units long and share their first unit: "G" "f" is the flag of   *)
(* the origin, "G" "e" the flag of the destination, "G" "p" the pin of the  *)
(* other waypoints.                                                        *)

GlyphClass == {"G", "f", "e", "p"}
Whitespace == {" "}

RECURSIVE trimStart(_)
trimStart(str) ==
    IF Len(str) > 0 /\ str[1] \in Whitespace THEN trimStart(Tail(str)) ELSE str

RECURSIVE trimEnd(_)
trimEnd(str) ==
    IF Len(str) > 0 /\ str[Len(str)] \in Whitespace
    THEN trimEnd(SubSeq(str, 1, Len(str) - 1))
    ELSE str

\* str.replace(/^[glyphs]\s*/, '').trim(): one leading unit of the class is
\* removed, with the whitespace that follows that unit
cleanLocationKey(str) ==
    trimEnd(trimStart(IF Len(str) > 0 /\ str[1] \in GlyphClass
                      THEN trimStart(Tail(str))
                      ELSE str))

\* waypoint.locationName || waypoint.location || `${lat}_${lng}`
locationKey(waypoint) ==
    IF Has(waypoint, "locationName") /\ waypoint.locationName # <<>>
    THEN waypoint.locationName
    ELSE IF Has(waypoint, "location") /\ waypoint.location # <<>>
    THEN waypoint.location
    ELSE IF Has(waypoint, "waypoint")
    THEN <<waypoint.waypoint.lat, "_", waypoint.waypoint.lng>>
    ELSE <<"undefined", "_", "undefined">>

\* (wp.locationName || wp.location || '') of the search for the kept waypoint
keptLocationKey(wp) ==
    IF Has(wp, "locationName") /\ wp.locationName # <<>> THEN wp.locationName
    ELSE IF Has(wp, "location") /\ wp.location # <<>> THEN wp.location
    ELSE <<>>

\* waypoint.waypoint?.type === 'origin' || ... === 'destination'
isEndpoint(waypoint) ==
    /\ Has(waypoint, "waypoint")
    /\ Has(waypoint.waypoint, "type")
    /\ waypoint.waypoint.type \in {"origin", "destination"}

\* uniqueWaypoints.find(...): the position of the first kept waypoint whose
\* cleaned key is `key`, 0 when there is none
RECURSIVE findKept(_, _, _)
findKept(uniqueWaypoints, key, j) ==
    IF j > Len(uniqueWaypoints) THEN 0
    ELSE IF cleanLocationKey(keptLocationKey(uniqueWaypoints[j])) = key THEN j
    ELSE findKept(uniqueWaypoints, key, j + 1)

\* the forEach of deduplicateWaypoints keeping no waypoint for its type
RECURSIVE dedupLoop_noEndpointRule(_, _, _, _)
dedupLoop_noEndpointRule(waypoints, k, uniqueWaypoints, seenLocations) ==
    IF k > Len(waypoints) THEN uniqueWaypoints
    ELSE LET waypoint == waypoints[k]
             key == cleanLocationKey(locationKey(waypoint))
             previous == findKept(uniqueWaypoints, key, 1)
         IN  IF key \in seenLocations
             THEN IF previous # 0
                     /\ Abs(waypoint.distanceFromStart
                            - uniqueWaypoints[previous].distanceFromStart) > 2000
                  THEN dedupLoop_noEndpointRule(waypoints, k + 1,
                                                Append(uniqueWaypoints, waypoint),
                                                seenLocations)
                  ELSE dedupLoop_noEndpointRule(waypoints, k + 1, uniqueWaypoints,
                                                seenLocations)
             ELSE dedupLoop_noEndpointRule(waypoints, k + 1,
                                           Append(uniqueWaypoints, waypoint),
                                           seenLocations \cup {key})

\* the forEach of deduplicateWaypoints from waypoint k (1-based) on
RECURSIVE dedupLoop(_, _, _, _)
dedupLoop(waypoints, k, uniqueWaypoints, seenLocations) ==
    IF k > Len(waypoints) THEN uniqueWaypoints
    ELSE LET waypoint == waypoints[k]
             key == cleanLocationKey(locationKey(waypoint))
             previous == findKept(uniqueWaypoints, key, 1)
         IN  IF isEndpoint(waypoint)
             THEN dedupLoop(waypoints, k + 1, Append(uniqueWaypoints, waypoint),
                            seenLocations)
             ELSE IF key \in seenLocations
             THEN IF previous # 0
                     /\ Abs(waypoint.distanceFromStart
                            - uniqueWaypoints[previous].distanceFromStart) > 2000
                  THEN dedupLoop(waypoints, k + 1, Append(uniqueWaypoints, waypoint),
                                 seenLocations)
                  ELSE dedupLoop(waypoints, k + 1, uniqueWaypoints, seenLocations)
             ELSE dedupLoop(waypoints, k + 1, Append(uniqueWaypoints, waypoint),
                            seenLocations \cup {key})

\* deduplicateWaypoints(weatherData); weatherData is a JavaScript value
deduplicateWaypoints(weatherData) ==
    IF ~weatherData.def \/ ~Has(weatherData.val, "waypoints")
       \/ Len(weatherData.val.waypoints) = 0
    THEN weatherData
    ELSE LET waypoints == weatherData.val.waypoints
             uniqueWaypoints == dedupLoop(waypoints, 1, <<>>, {})
         IN  [def |-> TRUE,
              val |-> [waypoints |-> uniqueWaypoints,
                       summary |->
                           [totalWaypoints |-> Len(uniqueWaypoints),
                            deduplicationApplied |-> TRUE,
                            originalWaypointCount |-> Len(waypoints),
                            removedDuplicates |-> Len(waypoints) - Len(uniqueWaypoints)]
                           @@ (IF Has(weatherData.val, "summary")
                               THEN weatherData.val.summary ELSE NoFields)]
                      @@ weatherData.val]

----------------------------------------------------------------------------
(* WeatherManager: the travel score of a report                            *)
(*                                                                         *)
(* Scores and penalties are counted in tenths of a point, so that the      *)
(* products with the factors 1.3 and 1.2 are integers; precipitation is in *)
(* 0.1 mm and rainProbability in 0.1 %, as in the samples above.           *)

NaN == [nan |-> TRUE, val |-> 0]
Number(n) == [nan |-> FALSE, val |-> n]

\* a property that is truthy
Truthy(obj, f) == Has(obj, f) /\ obj[f] = TRUE

\* temperaturePenalty without the tier of freezing temperatures
temperaturePenalty_noColdTier(data) ==
    IF data.temperature < 0 - 5 THEN [penalty |-> 300, risks |-> <<"extreme_cold">>]
    ELSE IF data.temperature > 35 THEN [penalty |-> 250, risks |-> <<"extreme_heat">>]
    ELSE [penalty |-> 0, risks |-> <<>>]

\* the penalties of one point, in the order the code applies them, and the
\* risks and alerts it pushes
temperaturePenalty(data) ==
    IF data.temperature < 0 - 5 THEN [penalty |-> 300, risks |-> <<"extreme_cold">>]
    ELSE IF data.temperature < 0 THEN [penalty |-> 200, risks |-> <<"cold">>]
    ELSE IF data.temperature > 35 THEN [penalty |-> 250, risks |-> <<"extreme_heat">>]
    ELSE [penalty |-> 0, risks |-> <<>>]

precipitationAnalysis(data) ==
    LET precipitationPenalty == IF Truthy(data, "isMixedMode") THEN 13 ELSE 10
    IN  IF data.precipitation > 200
        THEN [penalty |-> 40 * precipitationPenalty, risks |-> <<"heavy_rain">>]
        ELSE IF data.precipitation > 100
        THEN [penalty |-> 25 * precipitationPenalty, risks |-> <<"moderate_rain">>]
        ELSE IF data.precipitation > 20
        THEN [penalty |-> 10 * precipitationPenalty, risks |-> <<>>]
        ELSE [penalty |-> 0, risks |-> <<>>]

rainProbabilityAnalysis(data) ==
    LET rainProbPenalty == IF Truthy(data, "isMixedMode") THEN 12 ELSE 10
    IN  IF data.rainProbability > 800
        THEN [penalty |-> 25 * rainProbPenalty,
              risks |-> <<"very_high_rain_probability">>, alerts |-> <<>>]
        ELSE IF data.rainProbability > 600
        THEN [penalty |-> 15 * rainProbPenalty,
              risks |-> <<"high_rain_probability">>, alerts |-> <<>>]
        ELSE IF data.rainProbability > 400
        THEN [penalty |-> 8 * rainProbPenalty,
              risks |-> <<>>, alerts |-> <<"moderate_rain_probability">>]
        ELSE IF data.rainProbability > 200
        THEN [penalty |-> 3 * rainProbPenalty, risks |-> <<>>, alerts |-> <<>>]
        ELSE [penalty |-> 0, risks |-> <<>>, alerts |-> <<>>]

windAnalysis(data) ==
    LET windPenalty ==
            IF (Has(data, "mode") /\ data.mode = "bicycle") \/ Truthy(data, "isMixedMode")
            THEN 12 ELSE 10
    IN  IF data.windSpeed > 25
        THEN [penalty |-> 30 * windPenalty, risks |-> <<"strong_wind">>]
        ELSE IF data.windSpeed > 15
        THEN [penalty |-> 15 * windPenalty, risks |-> <<"moderate_wind">>]
        ELSE [penalty |-> 0, risks |-> <<>>]

\* a sample without visibility compares as undefined: neither test holds
visibilityAnalysis(data) ==
    IF Has(data, "visibility") /\ data.visibility.num < 1 * data.visibility.den
    THEN [penalty |-> 350, risks |-> <<"poor_visibility">>]
    ELSE IF Has(data, "visibility") /\ data.visibility.num < 5 * data.visibility.den
    THEN [penalty |-> 200, risks |-> <<"reduced_visibility">>]
    ELSE [penalty |-> 0, risks |-> <<>>]

humidityAnalysis(data) ==
    IF data.humidity > 85 /\ data.temperature > 25
    THEN [penalty |-> 100, alerts |-> <<"high_humidity">>]
    ELSE IF data.humidity > 90 THEN [penalty |-> 50, alerts |-> <<>>]
    ELSE [penalty |-> 0, alerts |-> <<>>]

feelsLikePenalty(data) ==
    IF Has(data, "feelsLike") /\ Abs(data.feelsLike - data.temperature) > 5
    THEN (IF data.feelsLike < 0 - 5 \/ data.feelsLike > 35 THEN 150
          ELSE IF data.feelsLike < 0 \/ data.feelsLike > 30 THEN 80
          ELSE 0)
    ELSE 0

\* the body of the forEach for one point: pointScore before the clamp
pointAnalysis(data) ==
    [pointScore |->
         1000 - temperaturePenalty(data).penalty - precipitationAnalysis(data).penalty
              - rainProbabilityAnalysis(data).penalty - windAnalysis(data).penalty
              - visibilityAnalysis(data).penalty - humidityAnalysis(data).penalty
              - feelsLikePenalty(data),
     risks |-> temperaturePenalty(data).risks \o precipitationAnalysis(data).risks
               \o rainProbabilityAnalysis(data).risks \o windAnalysis(data).risks
               \o visibilityAnalysis(data).risks,
     alerts |-> rainProbabilityAnalysis(data).alerts \o humidityAnalysis(data).alerts,
     mixed |-> IF Truthy(data, "isMixedMode") THEN 1 ELSE 0]

\* the forEach of analyzeWeatherForTravel from point k (1-based) on
RECURSIVE analyzeLoop(_, _, _)
analyzeLoop(weatherData, k, acc) ==
    IF k > Len(weatherData) THEN acc
    ELSE LET point == pointAnalysis(weatherData[k])
         IN  analyzeLoop(weatherData, k + 1,
                 [totalScore |-> acc.totalScore + Max(0, point.pointScore),
                  pointCount |-> acc.pointCount + 1,
                  risks |-> acc.risks \o point.risks,
                  alerts |-> acc.alerts \o point.alerts,
                  mixed |-> acc.mixed + point.mixed])

\* the recommendations for a score (every comparison with NaN is false)
recommendationsFor(overallScore, hasMixedMode) ==
    LET tier == IF overallScore.nan THEN 4
                ELSE IF overallScore.val >= 85 THEN 0
                ELSE IF overallScore.val >= 70 THEN 1
                ELSE IF overallScore.val >= 55 THEN 2
                ELSE IF overallScore.val >= 40 THEN 3
                ELSE 4
        general == << <<"Excellent conditions for travel">>,
                      <<"Good conditions for travel",
                        "Check weather updates before departure">>,
                      <<"Fair conditions - travel with caution",
                        "Consider postponing non-essential travel">>,
                      <<"Poor conditions - avoid travel if possible",
                        "If travel is necessary, take extra precautions">>,
                      <<"Very poor conditions - strongly avoid travel",
                        "Wait for weather to improve">> >>
        mixedMode == <<"Good conditions for both cycling and walking segments",
                       "Generally good for mixed-mode segments",
                       "Mixed-mode route may be more challenging in these conditions",
                       "Mixed-mode travel not recommended in these conditions",
                       "Mixed-mode travel dangerous in these conditions">>
    IN  general[tier + 1] \o (IF hasMixedMode THEN <<mixedMode[tier + 1]>> ELSE <<>>)

\* analyzeWeatherForTravel(weatherData); Math.round(totalScore / pointCount)
\* is NaN for 0 / 0
analyzeWeatherForTravel(weatherData) ==
    LET done == analyzeLoop(weatherData, 1,
                    [totalScore |-> 0, pointCount |-> 0, risks |-> <<>>,
                     alerts |-> <<>>, mixed |-> 0])
        overallScore == IF done.pointCount = 0 THEN NaN
                        ELSE Number(RoundDiv(done.totalScore, 10 * done.pointCount))
    IN  [overallScore |-> overallScore,
         risks |-> done.risks,
         recommendations |-> recommendationsFor(overallScore, done.mixed > 0),
         alerts |-> done.alerts,
         mixedModeConsiderations |-> done.mixed]

----------------------------------------------------------------------------
(* Inputs                                                                  *)

\* all sequences over S of length at most n
RECURSIVE SeqsUpTo(_, _)
SeqsUpTo(S, n) ==
    IF n = 0 THEN {<<>>}
    ELSE LET shorter == SeqsUpTo(S, n - 1)
         IN  shorter \cup {Append(q, c) : q \in shorter, c \in S}

\* character codes: 'A' is 0, 'B' is 1, 'C' is 2, 'F' is 5, 'Q' is 16 (third
\* dimension kind 1), '-' is 62 (a continuation group of 30), '?' is a gap
\* of the table (-1)
HeaderStrings == { <<>>, <<66>>, <<66, 65>>, <<66, 70>>, <<66, 81>>, <<67, 65>> }
BodyChars == {45, 65, 70, 63}
\* strings with a character code below 45 ('!') or above 122 ('~')
StrayStrings == { <<66, 65, 33, 65>>, <<66, 65, 65, 126>>, <<66, 65, 126, 33>>, <<66, 33>> }
WireStrings ==
    {h \o b : h \in HeaderStrings, b \in SeqsUpTo(BodyChars, MaxBody)} \cup StrayStrings

\* coordinates in micro-degrees
InputCoords == { <<lat, lng>> : lat \in {0, 15, 0 - 4, 4812345}, lng \in {0, 0 - 1234567} }
CoordLists == SeqsUpTo(InputCoords, MaxCoords)

CurrentDts == {1000000}
ClockOffsets == {2}

weatherOf(text) == <<[description |-> text]>>

CurrentRecords(now) ==
    LET bare == [dt |-> now, temp |-> 20, weather |-> weatherOf("clear sky"),
                 humidity |-> 50, wind_speed |-> 3, visibility |-> 10000]
    IN  { bare,
          bare @@ [rain |-> ("1h" :> 12), feels_like |-> 18, wind_gust |-> 7,
                   wind_deg |-> 270, snow |-> ("3h" :> 4)] }

\* entry i (0-based) of a minutely array that starts at `now`
MinutelyEntry(now, i, wet) ==
    [dt |-> now + (60 * i), precipitation |-> IF wet /\ i % 2 = 1 THEN 3 ELSE 0]
MinutelyArrays(now) ==
    { [i \in 1..n |-> MinutelyEntry(now, i - 1, wet)] :
        n \in {0, 1, MaxMinutely - 1, MaxMinutely}, wet \in BOOLEAN }

\* entry i (0-based) of an hourly array that starts at `start`; the odd
\* entries carry the optional properties
HourlyEntry(start, i) ==
    [dt |-> start + (3600 * i), temp |-> 15 + i, weather |-> weatherOf("few clouds"),
     humidity |-> 60, wind_speed |-> 5, visibility |-> 8000, pop |-> 40 + i]
    @@ (IF i % 2 = 1
        THEN [rain |-> ("1h" :> 7), feels_like |-> 14, wind_gust |-> 9,
              wind_deg |-> 90, snow |-> ("1h" :> 2)]
        ELSE NoFields)
HourlyArrays(now) ==
    { [i \in 1..n |-> HourlyEntry(start, i - 1)] :
        n \in 0..MaxHourly, start \in {now - 1200, now + 600} }

\* entry j (0-based, or reversed) of a daily array
DailyEntry(start, j) ==
    [dt |-> start + (86400 * j), temp |-> [day |-> 22 + j],
     weather |-> weatherOf("light rain"), humidity |-> 70, wind_speed |-> 4,
     pop |-> 55 + j]
    @@ (IF j % 2 = 1
        THEN [rain |-> 25, feels_like |-> [day |-> 21], wind_gust |-> 6, wind_deg |-> 45,
              snow |-> 3]
        ELSE NoFields)
DailyArrays(now) ==
    { [i \in 1..n |-> DailyEntry(now + 129600, IF rev THEN n - i ELSE i - 1)] :
        n \in {0, 1, MaxDaily}, rev \in BOOLEAN }

\* the JSON bodies of the provider: with a current record and any
\* combination of the three arrays, or without a current record
Payloads ==
    UNION { { [current |-> c]
              @@ (IF m.def THEN [minutely |-> m.val] ELSE NoFields)
              @@ (IF h.def THEN [hourly |-> h.val] ELSE NoFields)
              @@ (IF d.def THEN [daily |-> d.val] ELSE NoFields) :
                c \in CurrentRecords(now),
                m \in {[def |-> FALSE, val |-> <<>>]}
                      \cup {[def |-> TRUE, val |-> a] : a \in MinutelyArrays(now)},
                h \in {[def |-> FALSE, val |-> <<>>]}
                      \cup {[def |-> TRUE, val |-> a] : a \in HourlyArrays(now)},
                d \in {[def |-> FALSE, val |-> <<>>]}
                      \cup {[def |-> TRUE, val |-> a] : a \in DailyArrays(now)} } :
            now \in CurrentDts }
    \cup { [hourly |-> a] : a \in UNION {HourlyArrays(now) : now \in CurrentDts} }

Responses ==
    { [ok |-> FALSE, json |-> NoFields],
      [ok |-> FALSE, json |-> NoFields, rejected |-> TRUE] }
    \cup { [ok |-> TRUE, json |-> p] : p \in Payloads }

\* target instants, as offsets from the instant of the current record
TargetDiffs ==
    { 0 - 60, 0, 299, 300, 360, 420, 600, 601, 659, 660, 1799, 1800, 3600, 3601,
      4200, 4260, 9000, 172800, 172801, 180000, 216000, 259200 }
TargetTimes ==
    { Undefined } \cup { Num(now + d) : now \in CurrentDts, d \in TargetDiffs }

\* waypoints of calculateWaypointTimings: the cumulative distance in metres
\* is known or not, point by point
DistanceChoices == {Undefined, Num(0), Num(500), Num(1500)}
TimingWaypoint(k, n, d) ==
    [index |-> k - 1,
     type |-> IF k = 1 THEN "origin" ELSE IF k = n THEN "destination" ELSE "intermediate"]
    @@ Opt(d.def, "distance", d.val)
TimingLists ==
    UNION { { [k \in 1..n |-> TimingWaypoint(k, n, ds[k])] :
                ds \in [1..n -> DistanceChoices] } : n \in 0..MaxWaypoints }
\* routeData.duration in seconds (Undefined: not a number)
\* the decoded coordinates of a route along the meridian of 11.5 degrees:
\* from one point to the next 0, 500 or 1001 metres
RouteSteps == {0, 4500, 9000}
RECURSIVE RouteCoordinatesFrom(_, _)
RouteCoordinatesFrom(lat, n) ==
    IF n = 0 THEN { <<>> }
    ELSE { <<>> } \cup { << <<lat, 11500000>> >> \o rest :
                          rest \in UNION { RouteCoordinatesFrom(lat + s, n - 1) :
                                             s \in RouteSteps } }
RouteCoordinateLists == RouteCoordinatesFrom(48100000, MaxRoutePoints)
\* routeData.distance of the provider, in metres
TotalDistances == {0, 900, 1500, 2002, 3500}

TotalDurations == {Undefined, Num(0), Num(601), Num(3600)}
\* departureTime.getTime(), in milliseconds
DepartureTimes == {1000, 61999}

\* the glyph getRouteWeatherData puts before the location of a waypoint
GlyphOf(type) ==
    IF type = "origin" THEN <<"G", "f">>
    ELSE IF type = "destination" THEN <<"G", "e">>
    ELSE <<"G", "p">>

\* entry k of the waypoints of a report: of a type, named by the geocoder
\* (locationName) or not, at an along-route distance in metres
StopKinds ==
    { [type |-> "origin", named |-> TRUE, name |-> "A"],
      [type |-> "intermediate", named |-> TRUE, name |-> "A"],
      [type |-> "intermediate", named |-> TRUE, name |-> "B"],
      [type |-> "intermediate", named |-> FALSE, name |-> "A"],
      [type |-> "destination", named |-> TRUE, name |-> "A"] }
StopDistances == {0, 2001, 4001}
ReportWaypoint(k, kind, dist) ==
    [waypoint |-> [type |-> kind.type, index |-> k - 1, lat |-> "48.1", lng |-> "11.5",
                   distance |-> dist],
     location |-> GlyphOf(kind.type) \o <<" ", kind.name>>,
     distanceFromStart |-> dist]
    @@ Opt(kind.named, "locationName", <<kind.name>>)
\* the waypoint lists of a report; the distance does not decrease along it
ReportWaypointLists ==
    UNION { { [k \in 1..n |-> ReportWaypoint(k, ks[k], ds[k])] :
                ks \in [1..n -> StopKinds],
                ds \in { f \in [1..n -> StopDistances] :
                           \A k \in 1..(n - 1) : f[k] <= f[k + 1] } } :
            n \in 0..MaxWaypoints }
\* the argument of deduplicateWaypoints: nothing, a report without
\* waypoints, or a report
WeatherDataResults ==
    { Undefined, [def |-> TRUE, val |-> [summary |-> [totalWaypoints |-> 0]]] }
    \cup { [def |-> TRUE,
            val |-> [waypoints |-> w,
                     summary |-> [totalWaypoints |-> Len(w), routeDistance |-> 3000]]] :
             w \in ReportWaypointLists }

\* the points of a report handed to analyzeWeatherForTravel
MildPoint ==
    [temperature |-> 20, precipitation |-> 0, rainProbability |-> 0, windSpeed |-> 5,
     visibility |-> Km(10000), humidity |-> 50]
ColdPoint == [MildPoint EXCEPT !.temperature = 0 - 5]
AnalysisPoints ==
    { MildPoint,
      ColdPoint,
      [MildPoint EXCEPT !.temperature = 0 - 6] @@ [feelsLike |-> 0 - 12],
      [temperature |-> 36, precipitation |-> 250, rainProbability |-> 900,
       windSpeed |-> 30, visibility |-> Km(500), humidity |-> 95,
       isMixedMode |-> TRUE, mode |-> "bicycle", feelsLike |-> 42],
      [temperature |-> 12, precipitation |-> 110, rainProbability |-> 450,
       windSpeed |-> 16, humidity |-> 91, isMixedMode |-> TRUE, mode |-> "pedestrian"] }
MildReports == { [k \in 1..n |-> MildPoint] : n \in 1..MaxReport }
AnalysisLists == SeqsUpTo(AnalysisPoints, MaxPoints) \cup MildReports

----------------------------------------------------------------------------
(* RouteManager.getRouteWeatherData: the report of a route                 *)
(*                                                                         *)
(* A promise is a record: settled or not, and the value it resolved with.   *)

Pending == [settled |-> FALSE, value |-> NoFields]
Resolved(v) == [settled |-> TRUE, value |-> v]

\* Promise.all on promises none of which rejects: it resolves when one
\* promise has settled
PromiseAll_any(promises) ==
    \E i \in DOMAIN promises : promises[i].settled

\* Promise.all on promises none of which rejects: it resolves when every
\* promise has resolved, with the values in the order of the promises
PromiseAll(promises) ==
    \A i \in DOMAIN promises : promises[i].settled

\* Date.now() / 1000 during the lookups
ReportClock == 1000002

\* the payload of a lookup that succeeds
ReportPayload ==
    [current |-> [dt |-> 1000000, temp |-> 20, humidity |-> 50, wind_speed |-> 3,
                  visibility |-> 10000,
                  weather |-> <<[description |-> "clear sky"]>>]]

\* the answers to the fetch of a lookup: a payload, an HTTP error, a
\* rejected fetch, a payload without a current record
ReportResponses ==
    { [ok |-> TRUE, json |-> ReportPayload],
      [ok |-> FALSE, json |-> NoFields],
      [ok |-> FALSE, json |-> NoFields, rejected |-> TRUE],
      [ok |-> TRUE, json |-> [hourly |-> <<>>]] }

\* the draws of Math.random in generateDemoWeatherPoint, cut down to one
ReportDraw(d) ==
    /\ d.temperature = 10 /\ d.description = "Clear sky" /\ d.precipitation = 0
    /\ Has(d, "windGust") /\ Has(d, "windDeg")

\* what the promise of getWeatherAtPoint(lat, lng, targetTime) resolves
\* with, for the answer to its fetch
weatherPromiseValues(answer, targetTime) ==
    { out.data : out \in { o \in getWeatherAtPointOutcomes(answer, targetTime, ReportClock) :
                             o.synthetic => ReportDraw(o.data) } }

\* what the promise of getLocationName resolves with: the name of the
\* geocoder, or the coordinates as text when the geocoder fails
LocationNames == { <<"A">>, <<"48.1000, 11.5000">> }

\* window.weatherManager: a WeatherManager, an object that has only
\* some of its methods, or none yet while the API key is not configured
WeatherManagers == { "full", "timing", "legacy", "legacyNoAnalysis", "none", "noApiKey" }

\* the lookup method getRouteWeatherData picks, "" when there is none
lookupMethod(manager) ==
    IF manager = "full" THEN "names"
    ELSE IF manager = "timing" THEN "timing"
    ELSE IF manager \in {"legacy", "legacyNoAnalysis"} THEN "legacy"
    ELSE ""

\* the targetTime argument of the lookup for a waypoint
lookupTargetTime(manager, waypoint) ==
    IF lookupMethod(manager) = "legacy" THEN Undefined
    ELSE Num(waypoint.estimatedArrivalTime)

\* what the lookup method resolves with once its promises have: one entry
\* per weather promise, in their order
weatherDataOf(manager, waypointsWithTiming, weatherResults, locationResults) ==
    [index \in DOMAIN weatherResults |->
        IF lookupMethod(manager) = "names"
        THEN [locationName |-> locationResults[index].value,
              estimatedArrivalTime |-> waypointsWithTiming[index].estimatedArrivalTime]
             @@ weatherResults[index].value
        ELSE IF lookupMethod(manager) = "legacy"
        THEN [estimatedArrivalTime |-> waypointsWithTiming[index].estimatedArrivalTime]
             @@ weatherResults[index].value
        ELSE weatherResults[index].value]

\* the numbers 1 to 12 as text
NumberText == << "1", "2", "3", "4", "5", "6", "7", "8", "9", "10", "11", "12" >>

\* the generic location of a waypoint
genericLocation(type, index) ==
    IF type = "origin" THEN GlyphOf(type) \o <<" ", "Origin">>
    ELSE IF type = "destination" THEN GlyphOf(type) \o <<" ", "Destination">>
    ELSE GlyphOf(type) \o <<" ", "Waypoint ", NumberText[index + 1]>>

\* weatherData.map(...) of getRouteWeatherData: waypoint and weather combined
combineRouteWeather(weatherData, waypointsWithTiming) ==
    [k \in DOMAIN weatherData |->
        LET weather == weatherData[k]
            waypoint == waypointsWithTiming[k]
            locationName ==
                IF Has(weather, "locationName") /\ weather.locationName # <<>>
                THEN GlyphOf(waypoint.type) \o <<" ">> \o weather.locationName
                ELSE genericLocation(waypoint.type, k - 1)
        IN  [waypoint |-> waypoint,
             location |-> locationName,
             distanceFromStart |-> waypoint.distance,
             estimatedArrivalTime |-> waypoint.estimatedArrivalTime]
            @@ weather]

\* the sum of (w.temperature || 20) over the points
RECURSIVE temperatureSum(_, _)
temperatureSum(points, k) ==
    IF k > Len(points) THEN 0
    ELSE (IF Has(points[k], "temperature") /\ points[k].temperature # 0
          THEN points[k].temperature ELSE 20)
         + temperatureSum(points, k + 1)

\* the analysis of getRouteWeatherData when the manager has no
\* analyzeWeatherForTravel: the average of no point is NaN, which compares
\* false
simpleAnalysis(points) ==
    LET sum == temperatureSum(points, 1)
        n == Len(points)
    IN  [overallScore |-> IF n > 0 /\ sum > 10 * n /\ sum < 30 * n
                          THEN Number(85) ELSE Number(70),
         risks |-> <<>>,
         recommendations |-> <<"Weather data available for route planning">>,
         alerts |-> <<>>]

\* getRouteWeatherData after the join: the report from the weather data
reportOf(manager, weatherData, waypointsWithTiming, totalDistance, totalDuration) ==
    LET points == combineRouteWeather(weatherData, waypointsWithTiming)
        weatherAnalysis == IF manager = "legacyNoAnalysis"
                           THEN simpleAnalysis(points)
                           ELSE analyzeWeatherForTravel(points)
    IN  [waypoints |-> points,
         analysis |-> weatherAnalysis,
         summary |-> [totalWaypoints |-> Len(waypointsWithTiming),
                      routeDistance |-> totalDistance,
                      routeDuration |-> totalDuration]]

\* generateDummyWeatherData: the draws of Math.random are cut down to one
\* for the samples and to the two ends for the score
generateDummyWeatherData(coordinates, distance, duration, departureTime, score) ==
    LET totalDistance == IF distance # 0 THEN distance ELSE 10000
        totalDuration == IF duration.def /\ duration.val # 0 THEN duration.val ELSE 3600
        waypoints == extractWaypointsFromRouteSingleMode(coordinates, totalDistance)
        waypointsWithTiming ==
            calculateWaypointTimings(waypoints, Num(totalDuration), departureTime)
        dummyWeatherData ==
            [k \in DOMAIN waypointsWithTiming |->
                LET waypoint == waypointsWithTiming[k]
                IN  [temperature |-> 20,
                     description |-> "Clear sky",
                     humidity |-> 60,
                     windSpeed |-> 10,
                     visibility |-> Km(10000),
                     precipitation |-> 0,
                     rainProbability |-> 10 * 25,
                     snow |-> 0,
                     feelsLike |-> 20,
                     timestamp |-> waypoint.estimatedArrivalTime,
                     isCurrentData |-> (k = 1),
                     waypoint |-> waypoint,
                     location |-> genericLocation(waypoint.type, k - 1),
                     distanceFromStart |-> waypoint.distance,
                     estimatedArrivalTime |-> waypoint.estimatedArrivalTime,
                     windGust |-> 15,
                     windDeg |-> 180]]
    IN  deduplicateWaypoints(
            [def |-> TRUE,
             val |-> [waypoints |-> dummyWeatherData,
                      analysis |-> [overallScore |-> Number(score),
                                    risks |-> <<>>,
                                    recommendations |->
                                        <<"Excellent conditions for travel",
                                          "Demo weather data - actual weather integration available">>,
                                    alerts |-> <<>>],
                      summary |-> [totalWaypoints |-> Len(waypoints),
                                   routeDistance |-> totalDistance,
                                   routeDuration |-> totalDuration]]])

\* the catch block of getRouteWeatherData passing the error on
catchRouteWeatherData_rethrow(coordinates, distance, duration, departureTime, score) ==
    Throw("WeatherManager does not have required methods")

\* the catch block of getRouteWeatherData
catchRouteWeatherData(coordinates, distance, duration, departureTime, score) ==
    Return(generateDummyWeatherData(coordinates, distance, duration, departureTime, score))

\* the routes of the reports: two or three points, 1001 metres apart
ReportRoutes ==
    { << <<48100000, 11500000>>, <<48109000, 11500000>> >>,
      << <<48100000, 11500000>>, <<48109000, 11500000>>, <<48118000, 11500000>> >> }
\* routeData.distance of the reports (0: the provider reported none)
ReportDistances == {0, 2002}
\* the draws of Math.random for the score of the dummy report
DummyScores == {70, 100}

----------------------------------------------------------------------------
(* RouteManager: showing one of the alternatives, clearing the route       *)
(*                                                                         *)
(* The alternatives hold their geometry as decodePolyline returns it.      *)

\* what calculateRoute of the API manager answered: two alternatives
RouteAlternatives ==
    << [coordinates |-> << <<48100000, 11500000>>, <<48109000, 11500000>> >>,
        distance |-> 1001, duration |-> 900],
       [coordinates |-> << <<48100000, 11500000>>, <<48109000, 11500000>>,
                           <<48118000, 11500000>> >>,
        distance |-> 2002, duration |-> 3600] >>

\* the departureTime argument of the calls, in milliseconds
RouteDeparture == 1000

\* what getRouteWeatherData(coordinates, routeData, departureTime) can
\* resolve with once the lookups of its waypoints have settled
RouteWeathers(routeData) ==
    LET points == extractWaypointsFromRouteSingleMode(routeData.coordinates,
                                                     routeData.distance)
        timing == calculateWaypointTimings(points, Num(routeData.duration),
                                           RouteDeparture)
        valuesAt(answer, i) ==
            weatherPromiseValues(answer, Num(timing[i].estimatedArrivalTime))
        resultsOf(answer) ==
            { r \in [DOMAIN timing ->
                        UNION { valuesAt(answer, i) : i \in DOMAIN timing }] :
                \A i \in DOMAIN timing : r[i] \in valuesAt(answer, i) }
    IN  { deduplicateWaypoints(
              [def |-> TRUE,
               val |-> reportOf("timing",
                                weatherDataOf("timing", timing,
                                    [i \in DOMAIN timing |-> Resolved(r[i])], <<>>),
                                timing, routeData.distance, routeData.duration)]) :
          r \in UNION { resultsOf(answer) : answer \in ReportResponses } }

\* showRouteByIndex then handleRegularRoute up to the await of
\* getRouteWeatherData: the new currentRoute
shownRoute(routeData) ==
    [def |-> TRUE,
     val |-> [coordinates |-> routeData.coordinates,
              data |-> routeData,
              weather |-> [def |-> FALSE, val |-> NoFields]]]

\* this.currentRoute.weather = weatherData
storeWeather(route, weatherData) ==
    [route EXCEPT !.val.weather = weatherData]

----------------------------------------------------------------------------
(* State                                                                   *)

VARIABLES
    coordinates,    \* the coordinate list handed to encodeFlexPolyline
    polyline,       \* the wire string (a sequence of character codes)
    stage,          \* "coords": not yet encoded, "wire": a wire string exists
    decoder,        \* what decodeUnsignedValues did on polyline, inside decode
    flexResult,     \* what FlexPolylineDecoder.decode did on polyline
    routeResult,    \* what RouteManager.decodePolyline returned on polyline
    response,       \* the provider's answer to the fetch of getWeatherAtPoint
    targetTime,     \* the targetTime argument (undefined: now)
    clock,          \* Date.now() / 1000
    selected,       \* what selectWeatherUpTo48Hours did on the payload
    weatherData,    \* what getWeatherAtPoint returned
    cache,          \* WeatherManager.cache: cacheKey -> data
    job,            \* what the route manager was asked to compute
    waypoints,      \* the waypoints handed to calculateWaypointTimings
    totalDuration,  \* its totalDuration argument
    departureTime,  \* its departureTime argument, in milliseconds
    waypointsWithTiming,        \* what calculateWaypointTimings returned
    weatherDataResult,          \* the argument of deduplicateWaypoints
    deduplicatedWeatherData,    \* what deduplicateWaypoints returned
    routeWeatherData,           \* the points handed to analyzeWeatherForTravel
    weatherAnalysis,            \* what analyzeWeatherForTravel returned
    previousAnalysis,           \* its result for the report one point shorter
    signedValue,    \* the value argument of encodeSignedVarintHERE
    unsignedValue,  \* its unsignedValue, handed to encodeUnsignedVarintHERE
    decodedValue,   \* what toSigned returned on unsignedValue
    rateLimit,      \* the Map of utils.js: clientId -> times of its requests
    dateNow,        \* Date.now() of the serverless function, in milliseconds
    requestLog,     \* every checkRateLimit call so far: client, time, answer
    callsMade,      \* the number of checkRateLimit calls made
    apiResult,      \* what APIManager.decodeFlexPolyline returned on polyline
    routeCoordinates,   \* the coordinates handed to extractWaypointsFromRoute
    totalDistance,      \* its totalDistance argument, in metres
    weatherManager,     \* what window.weatherManager is
    weatherPromises,    \* the promises of getWeatherAtPoint, one per waypoint
    locationPromises,   \* the promises of getLocationName, one per waypoint
    routeWeatherPromise,    \* the promise of the lookup method of the manager
    allRoutes,          \* RouteManager.allRoutes: the alternatives of the provider
    currentRouteIdx,    \* RouteManager.currentRouteIdx
    currentRoute,       \* RouteManager.currentRoute (null: not defined)
    mapLine,            \* the line the map shows: none, a route, the fallback
    routeCalls          \* the showRouteByIndex calls made, each with its position

vars == <<coordinates, polyline, stage, decoder, flexResult, routeResult,
          response, targetTime, clock, selected, weatherData, cache,
          job, waypoints, totalDuration, departureTime, waypointsWithTiming,
          weatherDataResult, deduplicatedWeatherData,
          routeWeatherData, weatherAnalysis, previousAnalysis,
          signedValue, unsignedValue, decodedValue,
          rateLimit, dateNow, requestLog, callsMade, apiResult,
          routeCoordinates, totalDistance,
          weatherManager, weatherPromises, locationPromises, routeWeatherPromise,
          allRoutes, currentRouteIdx, currentRoute, mapLine, routeCalls>>
travelVars == <<job, waypoints, totalDuration, departureTime, waypointsWithTiming,
                weatherDataResult, deduplicatedWeatherData,
                routeWeatherData, weatherAnalysis, previousAnalysis>>
codecVars == <<coordinates, polyline, stage, decoder, flexResult, routeResult>>
weatherVars == <<response, targetTime, clock, selected, weatherData, cache>>
zigzagVars == <<signedValue, unsignedValue, decodedValue>>
limiterVars == <<rateLimit, dateNow, requestLog, callsMade>>
fallbackVars == <<apiResult>>
extractVars == <<routeCoordinates, totalDistance>>
reportVars == <<weatherManager, weatherPromises, locationPromises, routeWeatherPromise>>
routeVars == <<allRoutes, currentRouteIdx, currentRoute, mapLine, routeCalls>>
restVars == <<zigzagVars, limiterVars, fallbackVars, extractVars, reportVars, routeVars>>

NotRun == [ok |-> FALSE, err |-> "not run", val |-> <<>>]
RouteNotRun == [kind |-> "not run", precision |-> 0, points |-> <<>>]
NoWeather == [done |-> FALSE, synthetic |-> FALSE, data |-> NoFields]

CodecIdle ==
    /\ coordinates = <<>>
    /\ polyline = <<>>
    /\ stage = "idle"
    /\ decoder = NotRun
    /\ flexResult = NotRun
    /\ routeResult = RouteNotRun

WeatherIdle ==
    /\ response = [ok |-> FALSE, json |-> NoFields]
    /\ targetTime = Undefined
    /\ clock = 0
    /\ selected = NotRun
    /\ weatherData = NoWeather
    /\ cache = NoFields

NotAnalyzed == [done |-> FALSE, analysis |-> NoFields]

WaypointsIdle ==
    /\ waypoints = <<>>
    /\ totalDuration = Undefined
    /\ departureTime = 0
    /\ waypointsWithTiming = NotRun
    /\ weatherDataResult = Undefined
    /\ deduplicatedWeatherData = NotRun

AnalysisIdle ==
    /\ routeWeatherData = <<>>
    /\ weatherAnalysis = NotAnalyzed
    /\ previousAnalysis = NotAnalyzed

TravelIdle ==
    /\ job = "idle"
    /\ WaypointsIdle
    /\ AnalysisIdle

ZigzagIdle ==
    /\ signedValue = 0
    /\ unsignedValue = Undefined
    /\ decodedValue = Undefined

LimiterIdle ==
    /\ rateLimit = NoFields
    /\ dateNow = 0
    /\ requestLog = <<>>
    /\ callsMade = 0

FallbackIdle == apiResult = RouteNotRun

ExtractIdle ==
    /\ routeCoordinates = <<>>
    /\ totalDistance = 0

ReportIdle ==
    /\ weatherManager = "full"
    /\ weatherPromises = <<>>
    /\ locationPromises = <<>>
    /\ routeWeatherPromise = Pending

NoLine == [kind |-> "none", idx |-> 0]
NoRoute == [def |-> FALSE, val |-> NoFields]

RouteIdle ==
    /\ allRoutes = <<>>
    /\ currentRouteIdx = 0
    /\ currentRoute = NoRoute
    /\ mapLine = NoLine
    /\ routeCalls = <<>>

RestIdle ==
    /\ ZigzagIdle
    /\ LimiterIdle
    /\ FallbackIdle
    /\ RouteIdle
    /\ ExtractIdle
    /\ ReportIdle

----------------------------------------------------------------------------
(* The codec: encode a coordinate list, decode a wire string               *)

InitCodec ==
    /\ \/ /\ stage = "coords"
          /\ coordinates \in CoordLists
          /\ polyline = <<>>
       \/ /\ stage = "wire"
          /\ coordinates = <<>>
          /\ polyline \in WireStrings
    /\ decoder = NotRun
    /\ flexResult = NotRun
    /\ routeResult = RouteNotRun
    /\ WeatherIdle
    /\ TravelIdle
    /\ RestIdle

\* APIManager.encodeFlexPolyline(coordinates)
EncodeFlexPolyline ==
    /\ stage = "coords"
    /\ polyline' = encodeFlexPolyline(coordinates)
    /\ stage' = "wire"
    /\ UNCHANGED <<coordinates, decoder, flexResult, routeResult, weatherVars, travelVars, restVars>>

\* FlexPolylineDecoder.decode(polyline), first statement of decodePolyline:
\* the unsigned integers of the stream
DecodeUnsignedValues ==
    /\ stage = "wire"
    /\ decoder = NotRun
    /\ decoder' = decodeUnsignedValues(polyline)
    /\ UNCHANGED <<coordinates, polyline, stage, flexResult, routeResult, weatherVars, travelVars, restVars>>

\* FlexPolylineDecoder.decode(polyline), the rest of decodePolyline: header,
\* coordinate loop, ending check (an exception of the first statement
\* propagates)
DecodeCoordinates ==
    /\ stage = "wire"
    /\ decoder # NotRun
    /\ flexResult = NotRun
    /\ flexResult' = decodePolylineFrom(decoder)
    /\ UNCHANGED <<coordinates, polyline, stage, decoder, routeResult, weatherVars, travelVars, restVars>>

\* RouteManager.decodePolyline(polyline)
DecodePolyline ==
    /\ stage = "wire"
    /\ routeResult = RouteNotRun
    /\ routeResult' = RouteDecodePolyline(polyline)
    /\ UNCHANGED <<coordinates, polyline, stage, decoder, flexResult, weatherVars, travelVars, restVars>>

\* APIManager.decodeFlexPolyline(polyline)
DecodeFlexPolyline ==
    /\ stage = "wire"
    /\ apiResult = RouteNotRun
    /\ apiResult' = decodeFlexPolyline(polyline)
    /\ UNCHANGED <<codecVars, weatherVars, travelVars, zigzagVars, limiterVars, extractVars, reportVars, routeVars>>

NextCodec ==
    \/ EncodeFlexPolyline
    \/ DecodeUnsignedValues
    \/ DecodeCoordinates
    \/ DecodePolyline
    \/ DecodeFlexPolyline

SpecCodec == InitCodec /\ [][NextCodec]_vars

----------------------------------------------------------------------------
(* The forecast: select a band and build the sample                        *)

InitWeather ==
    /\ response \in Responses
    /\ targetTime \in TargetTimes
    /\ clock \in {now + o : now \in CurrentDts, o \in ClockOffsets}
    /\ selected = NotRun
    /\ weatherData = NoWeather
    /\ cache = NoFields
    /\ CodecIdle
    /\ TravelIdle
    /\ RestIdle

\* the timestamp getWeatherAtPoint works with: targetTime ?? Date.now()/1000
Timestamp == IF targetTime.def THEN targetTime.val ELSE clock

\* selectWeatherUpTo48Hours(json, timestamp), called on its own
SelectWeatherUpTo48Hours ==
    /\ response.ok
    /\ selected = NotRun
    /\ selected' = selectWeatherUpTo48Hours(response.json, Timestamp)
    /\ UNCHANGED <<response, targetTime, clock, weatherData, cache, codecVars, travelVars, restVars>>

\* getWeatherAtPoint(lat, lng, targetTime)
GetWeatherAtPoint ==
    /\ ~weatherData.done
    /\ \E out \in getWeatherAtPointOutcomes(response, targetTime, clock) :
          /\ weatherData' = [done |-> TRUE, synthetic |-> out.synthetic, data |-> out.data]
          /\ cache' = IF out.cached THEN (out.cacheKey :> out.data) @@ cache ELSE cache
    /\ UNCHANGED <<response, targetTime, clock, selected, codecVars, travelVars, restVars>>

NextWeather == SelectWeatherUpTo48Hours \/ GetWeatherAtPoint

SpecWeather == InitWeather /\ [][NextWeather]_vars

----------------------------------------------------------------------------
(* The waypoints of a route: arrival times and deduplication               *)

InitWaypoints ==
    /\ \/ /\ job = "timings"
          /\ waypoints \in TimingLists
          /\ totalDuration \in TotalDurations
          /\ departureTime \in DepartureTimes
          /\ weatherDataResult = Undefined
          /\ ExtractIdle
       \/ /\ job = "dedup"
          /\ waypoints = <<>>
          /\ totalDuration = Undefined
          /\ departureTime = 0
          /\ weatherDataResult \in WeatherDataResults
          /\ ExtractIdle
       \/ /\ job = "extract"
          /\ routeCoordinates \in RouteCoordinateLists
          /\ totalDistance \in TotalDistances
          /\ waypoints = <<>>
          /\ totalDuration \in TotalDurations
          /\ departureTime \in DepartureTimes
          /\ weatherDataResult = Undefined
    /\ waypointsWithTiming = NotRun
    /\ deduplicatedWeatherData = NotRun
    /\ AnalysisIdle
    /\ CodecIdle
    /\ WeatherIdle
    /\ ZigzagIdle
    /\ LimiterIdle
    /\ FallbackIdle
    /\ RouteIdle
    /\ ReportIdle

\* RouteManager.calculateWaypointTimings(waypoints, totalDuration, departureTime)
CalculateWaypointTimings ==
    /\ job \in {"timings", "extracted"}
    /\ waypointsWithTiming = NotRun
    /\ waypointsWithTiming' =
           Return(calculateWaypointTimings(waypoints, totalDuration, departureTime))
    /\ UNCHANGED <<job, waypoints, totalDuration, departureTime, weatherDataResult,
                   deduplicatedWeatherData, routeWeatherData, weatherAnalysis,
                   previousAnalysis, codecVars, weatherVars, restVars>>

\* RouteManager.deduplicateWaypoints(weatherDataResult)
DeduplicateWaypoints ==
    /\ job = "dedup"
    /\ deduplicatedWeatherData = NotRun
    /\ deduplicatedWeatherData' = Return(deduplicateWaypoints(weatherDataResult))
    /\ UNCHANGED <<job, waypoints, totalDuration, departureTime, waypointsWithTiming,
                   weatherDataResult, routeWeatherData, weatherAnalysis,
                   previousAnalysis, codecVars, weatherVars, restVars>>

\* RouteManager.extractWaypointsFromRoute(coordinates, totalDistance) for a
\* route of one mode
ExtractWaypointsFromRoute ==
    /\ job = "extract"
    /\ waypoints' = extractWaypointsFromRouteSingleMode(routeCoordinates, totalDistance)
    /\ job' = "extracted"
    /\ UNCHANGED <<totalDuration, departureTime, waypointsWithTiming, weatherDataResult,
                   deduplicatedWeatherData, routeWeatherData, weatherAnalysis,
                   previousAnalysis, codecVars, weatherVars, restVars>>

NextWaypoints ==
    \/ CalculateWaypointTimings
    \/ DeduplicateWaypoints
    \/ ExtractWaypointsFromRoute

SpecWaypoints == InitWaypoints /\ [][NextWaypoints]_vars

----------------------------------------------------------------------------
(* The travel score of a report                                            *)

InitAnalysis ==
    /\ job = "analysis"
    /\ routeWeatherData \in AnalysisLists
    /\ weatherAnalysis = NotAnalyzed
    /\ previousAnalysis = NotAnalyzed
    /\ WaypointsIdle
    /\ CodecIdle
    /\ WeatherIdle
    /\ RestIdle

\* WeatherManager.analyzeWeatherForTravel(routeWeatherData)
AnalyzeWeatherForTravel ==
    /\ job = "analysis"
    /\ ~weatherAnalysis.done
    /\ weatherAnalysis' =
           [done |-> TRUE, analysis |-> analyzeWeatherForTravel(routeWeatherData)]
    /\ UNCHANGED <<job, waypoints, totalDuration, departureTime, waypointsWithTiming,
                   weatherDataResult, deduplicatedWeatherData, routeWeatherData,
                   previousAnalysis, codecVars, weatherVars, restVars>>

\* getRouteWeatherData for a route with one more waypoint: the list of
\* points grows by one and is analyzed anew
GetRouteWeatherData ==
    /\ job = "analysis"
    /\ weatherAnalysis.done
    /\ ~previousAnalysis.done
    /\ \E point \in AnalysisPoints :
          routeWeatherData' = Append(routeWeatherData, point)
    /\ previousAnalysis' = weatherAnalysis
    /\ weatherAnalysis' = NotAnalyzed
    /\ UNCHANGED <<job, waypoints, totalDuration, departureTime, waypointsWithTiming,
                   weatherDataResult, deduplicatedWeatherData, codecVars, weatherVars, restVars>>

NextAnalysis == AnalyzeWeatherForTravel \/ GetRouteWeatherData

SpecAnalysis == InitAnalysis /\ [][NextAnalysis]_vars

----------------------------------------------------------------------------
(* The signed mapping of the encoder, undone by the decoder                *)

\* the signed values handed to encodeSignedVarintHERE: small ones and the
\* ends of the 31-bit range
SignedValues ==
    ((0 - MaxSigned)..MaxSigned)
    \cup { 0 - 1073741824, 0 - 1073741823, 1073741822, 1073741823,
           0 - 536870912, 536870911, 0 - 99999, 100000 }

InitZigzag ==
    /\ signedValue \in SignedValues
    /\ unsignedValue = Undefined
    /\ decodedValue = Undefined
    /\ CodecIdle
    /\ WeatherIdle
    /\ TravelIdle
    /\ LimiterIdle
    /\ FallbackIdle
    /\ RouteIdle
    /\ ExtractIdle
    /\ ReportIdle

\* encodeSignedVarintHERE(value), its first statement
ZigzagHERE ==
    /\ ~unsignedValue.def
    /\ unsignedValue' = Num(zigzagHERE(signedValue))
    /\ UNCHANGED <<signedValue, decodedValue, codecVars, weatherVars, travelVars, limiterVars, fallbackVars, extractVars, reportVars, routeVars>>

\* FlexPolylineDecoder.toSigned(val) on the integer the encoder produced
ToSigned ==
    /\ unsignedValue.def
    /\ ~decodedValue.def
    /\ decodedValue' = Num(toSigned(unsignedValue))
    /\ UNCHANGED <<signedValue, unsignedValue, codecVars, weatherVars, travelVars, limiterVars, fallbackVars, extractVars, reportVars, routeVars>>

NextZigzag == ZigzagHERE \/ ToSigned

SpecZigzag == InitZigzag /\ [][NextZigzag]_vars

----------------------------------------------------------------------------
(* netlify/functions/utils.js: the rate limit per client                   *)

\* 60 * 1000 milliseconds: one minute
RATE_LIMIT_WINDOW == 60000
RATE_LIMIT_MAX_REQUESTS == 100

\* requests.filter(time => time > windowStart)
RECURSIVE filterRecent(_, _)
filterRecent(requests, windowStart) ==
    IF requests = <<>> THEN <<>>
    ELSE (IF Head(requests) > windowStart THEN <<Head(requests)>> ELSE <<>>)
         \o filterRecent(Tail(requests), windowStart)

\* checkRateLimit keeping the requests at the start of the window
checkRateLimit_closedWindow(map, clientId, now) ==
    LET windowStart == now - RATE_LIMIT_WINDOW
        present == IF clientId \in DOMAIN map THEN map ELSE (clientId :> <<>>) @@ map
        requests == present[clientId]
        recentRequests == filterRecent(requests, windowStart - 1)
    IN  IF Len(recentRequests) >= RATE_LIMIT_MAX_REQUESTS
        THEN [allowed |-> FALSE, map |-> present]
        ELSE [allowed |-> TRUE,
              map |-> (clientId :> Append(recentRequests, now)) @@ present]

\* checkRateLimit(clientId) at Date.now() = now on the Map: the answer and
\* the Map afterwards
checkRateLimit(map, clientId, now) ==
    LET windowStart == now - RATE_LIMIT_WINDOW
        present == IF clientId \in DOMAIN map THEN map ELSE (clientId :> <<>>) @@ map
        requests == present[clientId]
        recentRequests == filterRecent(requests, windowStart)
    IN  IF Len(recentRequests) >= RATE_LIMIT_MAX_REQUESTS
        THEN [allowed |-> FALSE, map |-> present]
        ELSE [allowed |-> TRUE,
              map |-> (clientId :> Append(recentRequests, now)) @@ present]

ClientIds == {"10.0.0.1", "10.0.0.2"}

\* the requests a client was allowed before: some at time 0, some at time 1
AllowedBefore ==
    { [i \in 1..(n + m) |-> IF i <= n THEN 0 ELSE 1] :
        n \in {0, 1, RATE_LIMIT_MAX_REQUESTS - 1, RATE_LIMIT_MAX_REQUESTS},
        m \in {0, 1, RATE_LIMIT_MAX_REQUESTS - 1, RATE_LIMIT_MAX_REQUESTS} }

\* the Maps reached by allowed requests alone at the times 0 and 1: the
\* first client with up to the full number, the second absent or full
LimiterMaps ==
    { ("10.0.0.1" :> a) @@ b :
        a \in { l \in AllowedBefore : Len(l) <= RATE_LIMIT_MAX_REQUESTS },
        b \in { NoFields,
                "10.0.0.2" :> [i \in 1..RATE_LIMIT_MAX_REQUESTS |-> 1] } }

\* the log of the requests that built the Map
RECURSIVE logOf(_, _)
logOf(clientId, times) ==
    IF times = <<>> THEN <<>>
    ELSE <<[client |-> clientId, time |-> Head(times), allowed |-> TRUE]>>
         \o logOf(clientId, Tail(times))

\* the time that passes before a call, in milliseconds
ClockSteps == {0, 1, RATE_LIMIT_WINDOW - 1, RATE_LIMIT_WINDOW}

InitLimiter ==
    /\ rateLimit \in LimiterMaps
    /\ dateNow = 1
    /\ requestLog = logOf("10.0.0.1", rateLimit["10.0.0.1"])
                    \o (IF "10.0.0.2" \in DOMAIN rateLimit
                        THEN logOf("10.0.0.2", rateLimit["10.0.0.2"]) ELSE <<>>)
    /\ callsMade = 0
    /\ CodecIdle
    /\ WeatherIdle
    /\ TravelIdle
    /\ ZigzagIdle
    /\ FallbackIdle
    /\ RouteIdle
    /\ ExtractIdle
    /\ ReportIdle

\* checkRateLimit(clientId), some time after the call before
CheckRateLimit ==
    /\ callsMade < MaxCalls
    /\ \E clientId \in ClientIds, step \in ClockSteps :
          LET now == dateNow + step
              out == checkRateLimit(rateLimit, clientId, now)
          IN  /\ dateNow' = now
              /\ rateLimit' = out.map
              /\ requestLog' = Append(requestLog,
                    [client |-> clientId, time |-> now, allowed |-> out.allowed])
    /\ callsMade' = callsMade + 1
    /\ UNCHANGED <<codecVars, weatherVars, travelVars, zigzagVars, fallbackVars, extractVars, reportVars, routeVars>>

NextLimiter == CheckRateLimit

SpecLimiter == InitLimiter /\ [][NextLimiter]_vars

----------------------------------------------------------------------------
(* The report of a route: lookups in flight, join, aggregation             *)

InitReport ==
    /\ job = "report"
    /\ routeCoordinates \in ReportRoutes
    /\ totalDistance \in ReportDistances
    /\ totalDuration \in {Num(0), Num(3600)}
    /\ departureTime = 1000
    /\ weatherManager \in WeatherManagers
    /\ weatherPromises = <<>>
    /\ locationPromises = <<>>
    /\ routeWeatherPromise = Pending
    /\ waypoints = <<>>
    /\ waypointsWithTiming = NotRun
    /\ weatherDataResult = Undefined
    /\ deduplicatedWeatherData = NotRun
    /\ AnalysisIdle
    /\ CodecIdle
    /\ WeatherIdle
    /\ ZigzagIdle
    /\ LimiterIdle
    /\ FallbackIdle
    /\ RouteIdle

\* getRouteWeatherData(coordinates, routeData, departureTime) up to its
\* await: the waypoints, their timings and the lookups issued all at once;
\* without a manager or a lookup method the catch block answers at once
IssueRouteWeatherLookups ==
    /\ job = "report"
    /\ IF weatherManager = "noApiKey" \/ lookupMethod(weatherManager) = ""
       THEN /\ \E score \in DummyScores :
                  deduplicatedWeatherData' =
                      catchRouteWeatherData(routeCoordinates, totalDistance,
                                            totalDuration, departureTime, score)
            /\ job' = "reported"
            /\ UNCHANGED <<waypoints, waypointsWithTiming, weatherPromises,
                           locationPromises>>
       ELSE LET extracted ==
                    extractWaypointsFromRouteSingleMode(routeCoordinates, totalDistance)
            IN  /\ waypoints' = extracted
                /\ waypointsWithTiming' =
                       Return(calculateWaypointTimings(extracted, totalDuration,
                                                       departureTime))
                /\ weatherPromises' = [i \in DOMAIN extracted |-> Pending]
                /\ locationPromises' =
                       IF lookupMethod(weatherManager) = "names"
                       THEN [i \in DOMAIN extracted |-> Pending] ELSE <<>>
                /\ job' = "fetching"
                /\ UNCHANGED deduplicatedWeatherData
    /\ UNCHANGED <<totalDuration, departureTime, weatherDataResult, routeWeatherData,
                   weatherAnalysis, previousAnalysis, routeCoordinates, totalDistance,
                   weatherManager, routeWeatherPromise, codecVars, weatherVars,
                   zigzagVars, limiterVars, fallbackVars, routeVars>>

\* one getWeatherAtPoint promise resolves, in any order among the pending
ResolveWeatherAtPoint ==
    /\ job = "fetching"
    /\ \E i \in DOMAIN weatherPromises :
          /\ ~weatherPromises[i].settled
          /\ \E answer \in ReportResponses :
                \E v \in weatherPromiseValues(answer,
                            lookupTargetTime(weatherManager, waypointsWithTiming.val[i])) :
                   weatherPromises' =
                       [weatherPromises EXCEPT ![i] = Resolved(v) @@ [answer |-> answer]]
    /\ UNCHANGED <<job, waypoints, totalDuration, departureTime, waypointsWithTiming,
                   weatherDataResult, deduplicatedWeatherData, routeWeatherData,
                   weatherAnalysis, previousAnalysis, routeCoordinates, totalDistance,
                   weatherManager, locationPromises, routeWeatherPromise, codecVars,
                   weatherVars, zigzagVars, limiterVars, fallbackVars, routeVars>>

\* one getLocationName promise resolves, in any order among the pending
ResolveLocationName ==
    /\ job = "fetching"
    /\ \E i \in DOMAIN locationPromises :
          /\ ~locationPromises[i].settled
          /\ \E name \in LocationNames :
                locationPromises' = [locationPromises EXCEPT ![i] = Resolved(name)]
    /\ UNCHANGED <<job, waypoints, totalDuration, departureTime, waypointsWithTiming,
                   weatherDataResult, deduplicatedWeatherData, routeWeatherData,
                   weatherAnalysis, previousAnalysis, routeCoordinates, totalDistance,
                   weatherManager, weatherPromises, routeWeatherPromise, codecVars,
                   weatherVars, zigzagVars, limiterVars, fallbackVars, routeVars>>

\* the lookup method of the manager after its await of Promise.all: it
\* resolves with the weather data
GetWeatherAlongRoute ==
    /\ job = "fetching"
    /\ ~routeWeatherPromise.settled
    /\ PromiseAll(weatherPromises)
    /\ PromiseAll(locationPromises)
    /\ routeWeatherPromise' =
           Resolved(weatherDataOf(weatherManager, waypointsWithTiming.val,
                                  weatherPromises, locationPromises))
    /\ UNCHANGED <<job, waypoints, totalDuration, departureTime, waypointsWithTiming,
                   weatherDataResult, deduplicatedWeatherData, routeWeatherData,
                   weatherAnalysis, previousAnalysis, routeCoordinates, totalDistance,
                   weatherManager, weatherPromises, locationPromises, codecVars,
                   weatherVars, zigzagVars, limiterVars, fallbackVars, routeVars>>

\* getRouteWeatherData after its await: combine, analyze, deduplicate
AggregateRouteWeather ==
    /\ job = "fetching"
    /\ routeWeatherPromise.settled
    /\ LET report == reportOf(weatherManager, routeWeatherPromise.value,
                              waypointsWithTiming.val, totalDistance, totalDuration.val)
       IN  /\ routeWeatherData' = report.waypoints
           /\ weatherAnalysis' = [done |-> TRUE, analysis |-> report.analysis]
           /\ weatherDataResult' = [def |-> TRUE, val |-> report]
           /\ deduplicatedWeatherData' =
                  Return(deduplicateWaypoints([def |-> TRUE, val |-> report]))
    /\ job' = "reported"
    /\ UNCHANGED <<waypoints, totalDuration, departureTime, waypointsWithTiming,
                   previousAnalysis, routeCoordinates, totalDistance, weatherManager,
                   weatherPromises, locationPromises, routeWeatherPromise, codecVars,
                   weatherVars, zigzagVars, limiterVars, fallbackVars, routeVars>>

NextReport ==
    \/ IssueRouteWeatherLookups
    \/ ResolveWeatherAtPoint
    \/ ResolveLocationName
    \/ GetWeatherAlongRoute
    \/ AggregateRouteWeather

SpecReport == InitReport /\ [][NextReport]_vars

----------------------------------------------------------------------------
(* Showing and clearing routes while the weather lookups are pending       *)

InitRoute ==
    /\ allRoutes = <<>>
    /\ currentRouteIdx = 0
    /\ currentRoute = NoRoute
    /\ mapLine = NoLine
    /\ routeCalls = <<>>
    /\ TravelIdle
    /\ CodecIdle
    /\ WeatherIdle
    /\ ZigzagIdle
    /\ LimiterIdle
    /\ FallbackIdle
    /\ ExtractIdle
    /\ ReportIdle

\* showRouteByIndex(idx, ...) into handleRegularRoute, up to the await of
\* getRouteWeatherData; the caller is calculateRoute, which awaits the call
\* inside its try block, or the button of an alternative, which does not
startShow(routes, idx, caller) ==
    /\ currentRouteIdx' = idx
    /\ currentRoute' = shownRoute(routes[idx + 1])
    /\ mapLine' = [kind |-> "route", idx |-> idx]
    /\ routeCalls' = Append(routeCalls, [idx |-> idx, routeData |-> routes[idx + 1],
                                         caller |-> caller, pc |-> "awaiting"])

\* calculateRoute after the answer of the provider: the alternatives are
\* stored and the first is shown
CalculateRoute ==
    /\ Len(routeCalls) < MaxShows
    /\ allRoutes' = RouteAlternatives
    /\ startShow(RouteAlternatives, 0, "calculateRoute")
    /\ UNCHANGED <<codecVars, weatherVars, travelVars, zigzagVars, limiterVars,
                   fallbackVars, extractVars, reportVars>>

\* the button of alternative idx: showRouteByIndex(idx, ...), neither
\* awaited nor caught
ShowRouteByIndex ==
    /\ Len(routeCalls) < MaxShows
    /\ \E idx \in 0 .. 1 :
          /\ idx + 1 \in DOMAIN allRoutes
          /\ startShow(allRoutes, idx, "onclick")
    /\ UNCHANGED <<allRoutes, codecVars, weatherVars, travelVars, zigzagVars,
                   limiterVars, fallbackVars, extractVars, reportVars>>

\* clearRoute()
ClearRoute ==
    /\ allRoutes # <<>>
    /\ currentRoute' = NoRoute
    /\ mapLine' = NoLine
    /\ UNCHANGED <<allRoutes, currentRouteIdx, routeCalls, codecVars, weatherVars,
                   travelVars, zigzagVars, limiterVars, fallbackVars, extractVars,
                   reportVars>>

\* handleRegularRoute after its await: the weather of its own routeData is
\* stored in whatever this.currentRoute is by now; on null the assignment
\* throws, and the catch block of calculateRoute draws the fallback line
ResumeHandleRegularRoute ==
    \E c \in DOMAIN routeCalls :
       /\ routeCalls[c].pc = "awaiting"
       /\ \E routeWeather \in RouteWeathers(routeCalls[c].routeData) :
             IF currentRoute.def
             THEN /\ currentRoute' = storeWeather(currentRoute, routeWeather)
                  /\ routeCalls' = [routeCalls EXCEPT ![c].pc = "done"]
                  /\ UNCHANGED mapLine
             ELSE /\ routeCalls' = [routeCalls EXCEPT ![c].pc = "failed"]
                  /\ mapLine' = IF routeCalls[c].caller = "calculateRoute"
                                THEN [kind |-> "fallback", idx |-> 0]
                                ELSE mapLine
                  /\ UNCHANGED currentRoute
       /\ UNCHANGED <<allRoutes, currentRouteIdx, codecVars, weatherVars, travelVars,
                      zigzagVars, limiterVars, fallbackVars, extractVars, reportVars>>

NextRoute ==
    \/ CalculateRoute
    \/ ShowRouteByIndex
    \/ ClearRoute
    \/ ResumeHandleRegularRoute

SpecRoute == InitRoute /\ [][NextRoute]_vars

----------------------------------------------------------------------------
(* Properties of the codec                                                 *)

\* n / 10^p is within 10^-5 of c micro-degrees
Close(n, p, c) ==
    IF p <= 6 THEN Abs((n * (10 ^ (6 - p))) - c) <= 10
    ELSE Abs(n - (c * (10 ^ (p - 6)))) <= 10 * (10 ^ (p - 6))

\* C1: round trip - decoding the string the encoder produced for a non-empty
\* list of valid coordinates succeeds and returns a list of the same length
\* whose every lat/lng is within 10^-5 of the original
C1_RoundTrip ==
    (stage = "wire" /\ Len(coordinates) > 0 /\ flexResult # NotRun)
    => /\ flexResult.ok
       /\ Len(flexResult.val.points) = Len(coordinates)
       /\ \A i \in 1..Len(coordinates) :
             /\ Close(flexResult.val.points[i][1], flexResult.val.precision,
                      coordinates[i][1])
             /\ Close(flexResult.val.points[i][2], flexResult.val.precision,
                      coordinates[i][2])

\* the last symbol of the string carries the continuation bit 0x20
EndsInContinuation(text) ==
    /\ Len(text) > 0
    /\ decodeChar(text[Len(text)]).def
    /\ (decodeChar(text[Len(text)]).val \div 32) % 2 = 1

\* C2: truncation detection - decodeUnsignedValues fails (with 'Invalid
\* encoding') exactly on the inputs whose last symbol has the continuation
\* bit set; on every other input (the last symbol closes an integer, or the
\* input is empty) it returns the integer list
C2_TruncationDetected ==
    decoder # NotRun
    => /\ ~decoder.ok <=> EndsInContinuation(polyline)
       /\ ~decoder.ok => decoder.err = "Invalid encoding"

\* a single symbol with the continuation bit and nothing after it was refused
C2_Witness ==
    /\ decoder # NotRun
    /\ ~decoder.ok
    /\ Len(polyline) = 1
    /\ decodeChar(polyline[1]).val >= 32

\* the integers the stream closes, whether or not its end is truncated
ClosedIntegers(text) == decodeLoop(text, 1, 0, 0, <<>>).resList

\* the first closed integer of the stream exists and is not the version 1
WrongVersion(text) ==
    Len(ClosedIntegers(text)) >= 1 /\ ClosedIntegers(text)[1] # FORMAT_VERSION

\* C3 as stated: whenever the decoded version integer is not 1, whatever the
\* rest of the stream, decode fails with the invalid-format-version error
C3_AnyRestOfStream ==
    (flexResult # NotRun /\ WrongVersion(polyline))
    => (~flexResult.ok /\ flexResult.err = "Invalid format version")

\* C3 amended: whenever the decoded version integer is not 1, decode returns
\* no coordinates; the error is the invalid-format-version error when the
\* stream is complete and the truncation error ('Invalid encoding') when the
\* rest of the stream ends inside an integer
C3_VersionGate ==
    (flexResult # NotRun /\ WrongVersion(polyline))
    => /\ ~flexResult.ok
       /\ ~EndsInContinuation(polyline) => flexResult.err = "Invalid format version"
       /\ EndsInContinuation(polyline) => flexResult.err = "Invalid encoding"

\* a version 2 stream with a header word and coordinates was refused as such
C3_Witness ==
    /\ flexResult # NotRun
    /\ flexResult.err = "Invalid format version"
    /\ Len(ClosedIntegers(polyline)) >= 4
    /\ ClosedIntegers(polyline)[1] = 2

\* the size of a coordinate group under header word h: 3 with a third
\* dimension (bits 4..6 of h), 2 without
GroupSize(h) == IF (h \div 16) % 8 # 0 THEN 3 ELSE 2

\* C4: premature ending - with version 1 and a header word, the integers
\* after the two header integers must fill whole groups: if not, decode
\* fails with the premature-ending error, and if so it returns exactly
\* count / group size coordinates
C4_PrematureEnding ==
    (flexResult # NotRun /\ decoder.ok /\ Len(decoder.val) >= 2
       /\ decoder.val[1] = FORMAT_VERSION)
    => LET remaining == Len(decoder.val) - 2
           size == GroupSize(decoder.val[2])
       IN  IF remaining % size # 0
           THEN ~flexResult.ok
                /\ flexResult.err = "Invalid encoding. Premature ending reached"
           ELSE flexResult.ok
                /\ Len(flexResult.val.points) = remaining \div size

\* a three-dimensional stream with two integers after the header was refused
C4_Witness ==
    /\ flexResult # NotRun
    /\ flexResult.err = "Invalid encoding. Premature ending reached"
    /\ decoder.ok
    /\ Len(decoder.val) = 4
    /\ GroupSize(decoder.val[2]) = 3

\* C5: codec errors reach the caller of RouteManager.decodePolyline - when
\* the decoder fails on the string, the caller gets the failure value (null)
\* and never a partial or substitute coordinate list
C5_ErrorsSurfaced ==
    (flexResult # NotRun /\ ~flexResult.ok /\ routeResult # RouteNotRun)
    => (routeResult.kind = "null" /\ routeResult.points = <<>>)

\* the decoder refused a stream whose first group was complete and the
\* caller got null
C5_Witness ==
    /\ flexResult # NotRun
    /\ flexResult.err = "Invalid encoding. Premature ending reached"
    /\ decoder.ok
    /\ Len(decoder.val) >= 5
    /\ routeResult.kind = "null"

\* the point n / 10^p lies in [-90,90] x [-180,180]; an int32 numerator over
\* 10^8 or more is below 22 in magnitude
WithinBounds(pt, p) ==
    \/ p >= 8
    \/ (Abs(pt[1]) <= 90 * (10 ^ p) /\ Abs(pt[2]) <= 180 * (10 ^ p))

\* C6 as stated: a decoded coordinate out of range makes decoding report an
\* error for the whole polyline; a returned list has one entry per decoded
\* group, each within range
C6_RejectWholePolyline ==
    (flexResult.ok /\ routeResult # RouteNotRun)
    => /\ (\E i \in 1..Len(flexResult.val.points) :
              ~WithinBounds(flexResult.val.points[i], flexResult.val.precision))
          => routeResult.kind = "null"
       /\ routeResult.kind = "list"
          => /\ Len(routeResult.points) = Len(flexResult.val.points)
             /\ \A i \in 1..Len(routeResult.points) :
                   WithinBounds(routeResult.points[i], routeResult.precision)

\* C6 amended: out-of-range coordinates are not clamped but dropped one by
\* one - the returned list is exactly the decoded coordinates that are within
\* range, in their order, unchanged; the failure value (null) is returned
\* only when no decoded coordinate is within range
C6_DropOutOfRange ==
    (flexResult.ok /\ routeResult # RouteNotRun)
    => LET p == flexResult.val.precision
           Ok(pt) == WithinBounds(pt, p)
           kept == SelectSeq(flexResult.val.points, Ok)
       IN  IF kept = <<>> THEN routeResult.kind = "null"
           ELSE /\ routeResult.kind = "list"
                /\ routeResult.precision = p
                /\ routeResult.points
                     = [i \in 1..Len(kept) |-> <<kept[i][1], kept[i][2]>>]

\* a list shorter than the decoded one was returned
C6_Witness ==
    /\ flexResult.ok
    /\ routeResult.kind = "list"
    /\ Len(routeResult.points) < Len(flexResult.val.points)

----------------------------------------------------------------------------
(* Properties of the band selection                                        *)

HasCurrent == response.ok /\ Has(response.json, "current")
Diff == Timestamp - response.json.current.dt
NonEmpty(f) == Has(response.json, f) /\ Len(response.json[f]) > 0

\* C7 as stated: diff < 300 gives the sample of the current record, marked
\* current, with the current record's timestamp; every sample produced for
\* diff >= 300 when minutely or hourly data exists is not marked current
C7_AnyBandData ==
    (selected # NotRun /\ HasCurrent)
    => /\ Diff < 300
          => /\ selected.ok
             /\ selected.val.isCurrentData
             /\ selected.val.timestamp = response.json.current.dt
             /\ selected.val.temperature = response.json.current.temp
       /\ (Diff >= 300 /\ (NonEmpty("minutely") \/ NonEmpty("hourly")) /\ selected.ok)
          => ~selected.val.isCurrentData

\* the array of the band that governs diff >= 300 holds an entry: minutely
\* for diff <= 3600 when a minutely array is present, hourly otherwise
GoverningBandNonEmpty ==
    IF Diff <= 3600 /\ Has(response.json, "minutely")
    THEN NonEmpty("minutely")
    ELSE NonEmpty("hourly")

\* C7 amended: diff < 300 gives the sample of the current record, marked
\* current, with the current record's timestamp; diff >= 300 gives a sample
\* not marked current when the array of the governing band is non-empty
\* (minutely for 300 <= diff <= 3600 when a minutely array is present,
\* hourly otherwise)
C7_InstantBoundary ==
    (selected # NotRun /\ HasCurrent)
    => /\ Diff < 300
          => /\ selected.ok
             /\ selected.val.isCurrentData
             /\ selected.val.timestamp = response.json.current.dt
             /\ selected.val.temperature = response.json.current.temp
       /\ (Diff >= 300 /\ GoverningBandNonEmpty)
          => (selected.ok /\ ~selected.val.isCurrentData)

\* one second before the boundary the current record was used
C7_Witness ==
    /\ selected.ok
    /\ HasCurrent
    /\ Diff = 299
    /\ selected.val.isCurrentData
    /\ NonEmpty("minutely")

\* C8: minute band index - for 300 <= diff <= 3600 and a non-empty minutely
\* array of length n, precipitation and timestamp come from
\* minutely[min(floor(diff/60), n-1)]
C8_MinuteIndexClamped ==
    (selected # NotRun /\ HasCurrent /\ Diff >= 300 /\ Diff <= 3600
       /\ NonEmpty("minutely"))
    => LET minutely == response.json.minutely
           idx == Min(Diff \div 60, Len(minutely) - 1)
       IN  /\ selected.ok
           /\ selected.val.timestamp = minutely[idx + 1].dt
           /\ selected.val.precipitation = minutely[idx + 1].precipitation

\* the timestamps of the hourly entries next to the target: the latest one
\* not after it and the earliest one after it
StraddlingDts(hourly, target) ==
    { hourly[i].dt : i \in { i \in DOMAIN hourly :
        \/ /\ hourly[i].dt <= target
           /\ \A j \in DOMAIN hourly : hourly[j].dt <= target => hourly[j].dt <= hourly[i].dt
        \/ /\ hourly[i].dt > target
           /\ \A j \in DOMAIN hourly : hourly[j].dt > target => hourly[j].dt >= hourly[i].dt } }

\* C9: minute data absent - for 300 <= diff <= 3600 with the minutely array
\* missing or empty (and hourly data present), getWeatherAtPoint returns the
\* hourly entry next to the target; it does not fail and does not return
\* synthetic data
C9_MinutelyAbsentUsesHour ==
    (weatherData.done /\ HasCurrent /\ Diff >= 300 /\ Diff <= 3600
       /\ ~NonEmpty("minutely") /\ NonEmpty("hourly"))
    => /\ ~weatherData.synthetic
       /\ ~weatherData.data.isCurrentData
       /\ weatherData.data.timestamp \in StraddlingDts(response.json.hourly, Timestamp)

\* the Hour band governs the selection and has entries
HourBand ==
    /\ selected # NotRun
    /\ HasCurrent
    /\ Diff >= 300
    /\ ~(Diff <= 3600 /\ Has(response.json, "minutely"))
    /\ NonEmpty("hourly")

\* the timestamp of the entry the Hour band must choose when the later of
\* two straddling entries is taken from `threshold` seconds after the
\* earlier one on
HourExpected(hourly, target, threshold) ==
    LET P == {i \in DOMAIN hourly : hourly[i].dt <= target}
        N == {i \in DOMAIN hourly : hourly[i].dt > target}
        prev == CHOOSE i \in P : \A j \in P : hourly[j].dt <= hourly[i].dt
        next == CHOOSE i \in N : \A j \in N : hourly[j].dt >= hourly[i].dt
    IN  IF P # {} /\ N # {}
        THEN (IF target - hourly[prev].dt >= threshold THEN hourly[next].dt
              ELSE hourly[prev].dt)
        ELSE IF P # {} THEN hourly[prev].dt
        ELSE hourly[next].dt

DtsOf(f) ==
    IF Has(response.json, f)
    THEN {response.json[f][i].dt : i \in DOMAIN response.json[f]}
    ELSE {}

\* C11: 48-hour boundary - getWeatherAtPoint answers from the daily array
\* exactly when target - current.dt > 48*3600 and from the selection up to
\* 48 hours otherwise; with hourly and daily data, 48 h ahead is answered by
\* an hourly entry and one second later by a daily entry
C11_Boundary48h ==
    (weatherData.done /\ HasCurrent /\ NonEmpty("hourly") /\ NonEmpty("daily"))
    => /\ Diff > 48 * 3600
          => /\ ~weatherData.synthetic
             /\ weatherData.data.timestamp \in DtsOf("daily")
             /\ ~weatherData.data.isCurrentData
       /\ Diff <= 48 * 3600
          => /\ weatherData.data.timestamp \notin DtsOf("daily")
             /\ Diff > 3600
                => /\ ~weatherData.synthetic
                   /\ weatherData.data.timestamp \in DtsOf("hourly")

\* exactly 48 h ahead an hourly entry answered although daily data exists
C11_Witness ==
    /\ weatherData.done
    /\ HasCurrent
    /\ Diff = 48 * 3600
    /\ NonEmpty("daily")
    /\ ~weatherData.synthetic
    /\ weatherData.data.timestamp \in DtsOf("hourly")

\* the Day band governs the request and has entries
DayBand ==
    /\ weatherData.done
    /\ HasCurrent
    /\ Diff > 48 * 3600
    /\ NonEmpty("daily")

\* C12: Day band nearest entry - for every non-empty daily array (in any
\* order) the chosen entry minimises |target - entry.dt|, and of several
\* entries at the minimum the one with the earliest timestamp is chosen
C12_NearestDayEarliestTie ==
    DayBand
    => LET dts == DtsOf("daily")
           best == {d \in dts : \A e \in dts : Abs(Timestamp - d) <= Abs(Timestamp - e)}
       IN  /\ ~weatherData.synthetic
           /\ weatherData.data.timestamp \in best
           /\ \A d \in best : weatherData.data.timestamp <= d

\* the band that governs the request needs an array that is empty or absent:
\* hourly for the Hour band (diff >= 300, no minutely array within the hour),
\* daily for the Day band
EmptyBand ==
    /\ HasCurrent
    /\ \/ /\ Diff >= 300
          /\ Diff <= 48 * 3600
          /\ ~(Diff <= 3600 /\ Has(response.json, "minutely"))
          /\ ~NonEmpty("hourly")
       \/ /\ Diff > 48 * 3600
          /\ ~NonEmpty("daily")

\* C13: empty band falls back to Instant - when the array of the chosen band
\* is empty or absent and a current record exists, the sample is built from
\* the current record with isCurrentData = true; no error is raised
C13_EmptyBandFallsBack ==
    (weatherData.done /\ EmptyBand)
    => /\ ~weatherData.synthetic
       /\ weatherData.data.isCurrentData
       /\ weatherData.data.timestamp = response.json.current.dt
       /\ weatherData.data.temperature = response.json.current.temp

\* C14: Instant rain probability - every sample of the Instant band (marked
\* current, chosen directly or by fallback) has rainProbability 90 when its
\* precipitation is > 0 and 0 otherwise (rainProbability in 0.1 %)
C14_InstantRainProbability ==
    (weatherData.done /\ HasCurrent /\ ~weatherData.synthetic
       /\ weatherData.data.isCurrentData)
    => weatherData.data.rainProbability
         = (IF weatherData.data.precipitation > 0 THEN 900 ELSE 0)

\* the record of the payload a genuine sample is built from: the current
\* record for the Instant band and the fallback; for the Minute band the
\* current record up to 30 minutes ahead and the second hourly entry (the
\* current record when there is none) later; for the Hour and Day bands the
\* entry whose timestamp the sample carries
SourceRecord ==
    LET json == response.json
        data == weatherData.data
    IN  IF data.isCurrentData THEN json.current
        ELSE IF Diff <= 3600 /\ Has(json, "minutely")
        THEN (IF Diff \div 60 < 30 THEN json.current
              ELSE IF Has(json, "hourly") /\ Len(json.hourly) >= 2 THEN json.hourly[2]
              ELSE json.current)
        ELSE IF Diff <= 48 * 3600
        THEN json.hourly[CHOOSE i \in DOMAIN json.hourly : json.hourly[i].dt = data.timestamp]
        ELSE json.daily[CHOOSE i \in DOMAIN json.daily : json.daily[i].dt = data.timestamp]

\* C15: optional fields pass-through - in every band each of feelsLike,
\* windGust, windDeg and snow is in the sample if and only if the field is
\* in the source record
C15_OptionalFieldsPassThrough ==
    (weatherData.done /\ HasCurrent /\ ~weatherData.synthetic)
    => /\ Has(weatherData.data, "feelsLike") <=> Has(SourceRecord, "feels_like")
       /\ Has(weatherData.data, "windGust") <=> Has(SourceRecord, "wind_gust")
       /\ Has(weatherData.data, "windDeg") <=> Has(SourceRecord, "wind_deg")
       /\ Has(weatherData.data, "snow") <=> Has(SourceRecord, "snow")

----------------------------------------------------------------------------
(* Properties of the waypoints of a route                                  *)

DepartureEpoch == departureTime \div 1000
\* the last waypoint has a cumulative distance > 0
LastDistancePositive ==
    /\ Len(waypoints) > 0
    /\ Has(waypoints[Len(waypoints)], "distance")
    /\ waypoints[Len(waypoints)].distance > 0
ByDistance(k) == Has(waypoints[k], "distance") /\ LastDistancePositive
\* one record per waypoint, in the order of the input, with its fields
SameWaypoints ==
    /\ Len(waypointsWithTiming.val) = Len(waypoints)
    /\ \A k \in DOMAIN waypoints :
          /\ waypointsWithTiming.val[k].index = waypoints[k].index
          /\ waypointsWithTiming.val[k].type = waypoints[k].type
Arrival(k) == waypointsWithTiming.val[k].estimatedArrivalTime

\* C16 as stated: one record per waypoint in the same order, with
\* estimatedArrivalTime = departureEpoch + round(totalDuration * progress),
\* progress = distance[i]/distance[last] when the waypoint has a distance and
\* the last distance is > 0, else i/(n-1); the first waypoint (distance 0)
\* arrives at departureEpoch and the last at departureEpoch + totalDuration
C16_ProgressOverLast ==
    (waypointsWithTiming.ok /\ totalDuration.def)
    => LET n == Len(waypoints)
           total == totalDuration.val
       IN  /\ SameWaypoints
           /\ \A k \in DOMAIN waypoints :
                 /\ ByDistance(k)
                    => Arrival(k) = DepartureEpoch
                         + RoundDiv(total * waypoints[k].distance, waypoints[n].distance)
                 /\ (~ByDistance(k) /\ n >= 2)
                    => Arrival(k) = DepartureEpoch + RoundDiv(total * (k - 1), n - 1)
           /\ n >= 1
              => /\ (Has(waypoints[1], "distance") /\ waypoints[1].distance = 0)
                    => Arrival(1) = DepartureEpoch
                 /\ Arrival(n) = DepartureEpoch + total

\* C16 amended: one record per waypoint in the same order, with
\* estimatedArrivalTime = departureEpoch + round(seconds * progress), seconds
\* being totalDuration (0 when it is not a number) and progress =
\* distance[i]/distance[last] when the waypoint has a distance and the last
\* distance is > 0, else i/max(1, n-1); the first waypoint (distance 0)
\* arrives at departureEpoch; the last arrives at departureEpoch + seconds
\* when there are two waypoints or more or its distance is > 0, and a single
\* waypoint without a positive distance arrives at departureEpoch
C16_WaypointTiming ==
    waypointsWithTiming.ok
    => LET n == Len(waypoints)
           total == IF totalDuration.def THEN totalDuration.val ELSE 0
       IN  /\ SameWaypoints
           /\ \A k \in DOMAIN waypoints :
                 /\ ByDistance(k)
                    => Arrival(k) = DepartureEpoch
                         + RoundDiv(total * waypoints[k].distance, waypoints[n].distance)
                 /\ ~ByDistance(k)
                    => Arrival(k) = DepartureEpoch + RoundDiv(total * (k - 1), Max(1, n - 1))
           /\ n >= 1
              => /\ (Has(waypoints[1], "distance") /\ waypoints[1].distance = 0)
                    => Arrival(1) = DepartureEpoch
                 /\ (n >= 2 \/ LastDistancePositive)
                    => Arrival(n) = DepartureEpoch + total
                 /\ (n = 1 /\ ~LastDistancePositive) => Arrival(1) = DepartureEpoch

\* a waypoint a third of the way along a route of 601 s arrived after 200 s,
\* and the destination after 601 s
C16_Witness ==
    /\ waypointsWithTiming.ok
    /\ Len(waypoints) = 3
    /\ totalDuration = Num(601)
    /\ ByDistance(2)
    /\ waypoints[2].distance = 500
    /\ waypoints[3].distance = 1500
    /\ Arrival(2) = DepartureEpoch + 200
    /\ Arrival(3) = DepartureEpoch + 601

\* deduplicateWaypoints ran on a report with waypoints
Deduplicated ==
    /\ deduplicatedWeatherData.ok
    /\ weatherDataResult.def
    /\ Has(weatherDataResult.val, "waypoints")
WaypointsIn == weatherDataResult.val.waypoints
WaypointsOut == deduplicatedWeatherData.val.val.waypoints
TypeOfStop(w) == w.waypoint.type
KeyOfStop(w) == cleanLocationKey(locationKey(w))

\* C17: deduplication never removes endpoints - every waypoint of type
\* origin or destination is in the output, whatever names collide, and the
\* output is an order-preserving subsequence of the input
C17_EndpointsSurvive ==
    Deduplicated
    => /\ \A k \in DOMAIN WaypointsIn :
             TypeOfStop(WaypointsIn[k]) \in {"origin", "destination"}
             => \E j \in DOMAIN WaypointsOut : WaypointsOut[j] = WaypointsIn[k]
       /\ \A j \in DOMAIN WaypointsOut :
             /\ WaypointsOut[j].waypoint.index + 1 \in DOMAIN WaypointsIn
             /\ WaypointsOut[j] = WaypointsIn[WaypointsOut[j].waypoint.index + 1]
       /\ \A i, j \in DOMAIN WaypointsOut :
             i < j => WaypointsOut[i].waypoint.index < WaypointsOut[j].waypoint.index

\* a destination was kept although a kept waypoint of the same key lies
\* within 2000 m before it, while another waypoint was removed
C17_Witness ==
    /\ Deduplicated
    /\ Len(WaypointsOut) < Len(WaypointsIn)
    /\ \E i, j \in DOMAIN WaypointsOut :
          /\ i < j
          /\ TypeOfStop(WaypointsOut[j]) = "destination"
          /\ TypeOfStop(WaypointsOut[i]) = "intermediate"
          /\ KeyOfStop(WaypointsOut[i]) = KeyOfStop(WaypointsOut[j])
          /\ WaypointsOut[j].distanceFromStart - WaypointsOut[i].distanceFromStart <= 2000

\* the positions of the input whose waypoint is in the output
KeptPositions == {WaypointsOut[j].waypoint.index + 1 : j \in DOMAIN WaypointsOut}
\* the kept waypoints before position k that share the key of waypoint k
KeptSameKeyBefore(k) ==
    {i \in KeptPositions : i < k /\ KeyOfStop(WaypointsIn[i]) = KeyOfStop(WaypointsIn[k])}
\* the latest of them
PreviousKept(k) ==
    CHOOSE i \in KeptSameKeyBefore(k) : \A h \in KeptSameKeyBefore(k) : h <= i

\* C18: deduplication distance rule - a waypoint that is not an endpoint and
\* whose key was already seen is dropped unless its distanceFromStart differs
\* from that of the previously kept waypoint of the same key by more than
\* 2000 m; so two consecutive kept waypoints sharing a key, the later one not
\* an endpoint, are more than 2000 m apart
C18_DistanceRule ==
    Deduplicated
    => \A k \in DOMAIN WaypointsIn :
          (TypeOfStop(WaypointsIn[k]) = "intermediate" /\ KeptSameKeyBefore(k) # {})
          => (k \in KeptPositions
              <=> Abs(WaypointsIn[k].distanceFromStart
                      - WaypointsIn[PreviousKept(k)].distanceFromStart) > 2000)

----------------------------------------------------------------------------
(* Properties of the travel score                                          *)

OverallScore == weatherAnalysis.analysis.overallScore
PreviousScore == previousAnalysis.analysis.overallScore

\* the sum of the point scores of report[1..k], each clamped to at least 0
RECURSIVE ClampedSum(_, _)
ClampedSum(report, k) ==
    IF k = 0 THEN 0
    ELSE ClampedSum(report, k - 1) + Max(0, pointAnalysis(report[k]).pointScore)

\* C19: overall score range - for any list of points, the empty list
\* included, overallScore is an integer in 0..100, the rounded mean of the
\* point scores clamped to at least 0
C19_OverallScoreRange ==
    weatherAnalysis.done
    => /\ ~OverallScore.nan
       /\ OverallScore.val \in 0..100
       /\ Len(routeWeatherData) > 0
          => OverallScore.val
               = RoundDiv(ClampedSum(routeWeatherData, Len(routeWeatherData)),
                          10 * Len(routeWeatherData))

\* a report of mild points (20 degrees, no rain, no other penalty) was
\* analyzed, a point at -5 degrees was added and the report analyzed anew
ColdPointAdded ==
    /\ weatherAnalysis.done
    /\ previousAnalysis.done
    /\ Len(routeWeatherData) >= 2
    /\ routeWeatherData[Len(routeWeatherData)] = ColdPoint
    /\ \A k \in 1..(Len(routeWeatherData) - 1) : routeWeatherData[k] = MildPoint

\* C20 as stated: for a report of any size the added point at -5 degrees
\* makes overallScore strictly lower
C20_StrictlyLowerAnySize ==
    ColdPointAdded => OverallScore.val < PreviousScore.val

\* C20 amended: the added point at -5 degrees never raises overallScore, and
\* makes it strictly lower exactly when the report had at most 38 points
\* before (40 points or more in all leave the rounded mean at 100)
C20_ScoreMonotonicity ==
    ColdPointAdded
    => /\ OverallScore.val <= PreviousScore.val
       /\ OverallScore.val < PreviousScore.val <=> Len(routeWeatherData) < 40

\* two mild points scored 100, and 93 with the cold point
C20_Witness ==
    /\ ColdPointAdded
    /\ Len(routeWeatherData) = 3
    /\ PreviousScore = Number(100)
    /\ OverallScore = Number(93)


----------------------------------------------------------------------------
(* Properties of the lookups that fail                                     *)

\* the fields every normalized sample has
RequiredFields ==
    { "temperature", "description", "humidity", "windSpeed", "visibility",
      "precipitation", "rainProbability", "timestamp", "isCurrentData" }

\* the fetch was rejected or answered with an HTTP error
FetchFailed == Has(response, "rejected") \/ ~response.ok

\* C22: when the payload lacks the current record or the fetch fails,
\* getWeatherAtPoint hands back the synthetic sample, and that sample has
\* every field of a normalized sample
C22_SyntheticOnFailure ==
    (weatherData.done /\ (FetchFailed \/ ~Has(response.json, "current")))
    => /\ weatherData.synthetic
       /\ RequiredFields \subseteq DOMAIN weatherData.data

\* a payload that holds hourly entries but no current record was answered
\* with the synthetic sample
C22_Witness ==
    /\ weatherData.done
    /\ weatherData.synthetic
    /\ response.ok
    /\ ~Has(response.json, "current")
    /\ Has(response.json, "hourly")
    /\ RequiredFields \subseteq DOMAIN weatherData.data


\* C25: every sample that band selection returns, whatever the band, has
\* all the fields of a normalized sample, the visibility among them
C25_AllBandsRequiredFields ==
    /\ (weatherData.done /\ ~weatherData.synthetic)
       => RequiredFields \subseteq DOMAIN weatherData.data
    /\ (selected # NotRun /\ selected.ok)
       => RequiredFields \subseteq DOMAIN selected.val


----------------------------------------------------------------------------
(* Properties of the decoder's alphabet                                    *)

\* the 64 character codes that the table maps to a value
Alphabet == { c \in 45..122 : DECODING_TABLE[(c - 45) + 1] # 0 - 1 }
HasInvalidSymbol == \E k \in DOMAIN polyline : polyline[k] \notin Alphabet

\* C29: FlexPolylineDecoder.decode raises an error for every input with a
\* character outside the 64-symbol alphabet
C29_InvalidSymbolsRejected ==
    (stage = "wire" /\ flexResult # NotRun /\ HasInvalidSymbol) => ~flexResult.ok


----------------------------------------------------------------------------
(* Properties of the signed mapping                                        *)

\* C24: zig-zag inverse - for a signed v of the 31-bit range the encoder maps
\* v to v<0 ? ~(v<<1) : (v<<1), that is 2(-1-v)+1 for v < 0 and 2v
\* otherwise; toSigned maps that integer u back to v, and it maps an even u
\* to u/2 and an odd u to -(u+1)/2
C24_ZigzagInverse ==
    /\ unsignedValue.def
       => unsignedValue.val = IF signedValue < 0
                              THEN (2 * ((0 - 1) - signedValue)) + 1
                              ELSE 2 * signedValue
    /\ decodedValue.def
       => /\ decodedValue.val = signedValue
          /\ decodedValue.val = IF unsignedValue.val % 2 = 0
                                THEN unsignedValue.val \div 2
                                ELSE (0 - ((unsignedValue.val - 1) \div 2)) - 1

\* the least value of the 31-bit range went through both mappings
C24_Witness ==
    /\ signedValue = 0 - 1073741824
    /\ unsignedValue = Num(2147483647)
    /\ decodedValue = Num(signedValue)


----------------------------------------------------------------------------
(* Properties of the rate limit                                            *)

\* the number of requests of the client that were allowed among the first
\* k calls of the log, later than the time from
AllowedSince(clientId, from, k) ==
    Cardinality({ j \in 1..k : /\ requestLog[j].client = clientId
                                /\ requestLog[j].allowed
                                /\ requestLog[j].time > from })

LastCall == requestLog[Len(requestLog)]

\* C28: rate limit window - a call is refused exactly when the client has
\* RATE_LIMIT_MAX_REQUESTS allowed requests in the RATE_LIMIT_WINDOW before
\* it (later than now - window), counting neither refused calls nor the
\* calls of another client; so the allowed requests of a client within the
\* window that ends at any call never exceed RATE_LIMIT_MAX_REQUESTS
C28_RateLimitWindow ==
    callsMade > 0
    => /\ ~LastCall.allowed
          <=> AllowedSince(LastCall.client, LastCall.time - RATE_LIMIT_WINDOW,
                           Len(requestLog) - 1) >= RATE_LIMIT_MAX_REQUESTS
       /\ \A c \in ClientIds :
             AllowedSince(c, LastCall.time - RATE_LIMIT_WINDOW, Len(requestLog))
                <= RATE_LIMIT_MAX_REQUESTS

\* a client with the full number of requests at time 1 was refused one
\* millisecond before the window had passed and allowed when it had, while
\* the other client held the full number of its own
C28_Witness ==
    /\ callsMade = 2
    /\ "10.0.0.2" \in DOMAIN rateLimit
    /\ Len(rateLimit["10.0.0.2"]) = RATE_LIMIT_MAX_REQUESTS
    /\ requestLog[Len(requestLog) - 1] =
          [client |-> "10.0.0.1", time |-> RATE_LIMIT_WINDOW, allowed |-> FALSE]
    /\ LastCall =
          [client |-> "10.0.0.1", time |-> RATE_LIMIT_WINDOW + 1, allowed |-> TRUE]
    /\ rateLimit["10.0.0.1"] = <<RATE_LIMIT_WINDOW + 1>>


----------------------------------------------------------------------------
(* The two decode entry points                                             *)

\* n / 10^p and m / 10^5 are the same number
SameAsE5(n, p, m) ==
    IF p <= 5 THEN m % (10 ^ (5 - p)) = 0 /\ m \div (10 ^ (5 - p)) = n
    ELSE IF p <= 14 THEN n % (10 ^ (p - 5)) = 0 /\ n \div (10 ^ (p - 5)) = m
    ELSE n = 0 /\ m = 0

\* C30: for every string that FlexPolylineDecoder.decode decodes to a
\* non-empty list, APIManager.decodeFlexPolyline returns the same list of
\* lat/lng coordinates
C30_EntryPointsAgree ==
    (flexResult.ok /\ Len(flexResult.val.points) > 0 /\ apiResult # RouteNotRun)
    => /\ Len(apiResult.points) = Len(flexResult.val.points)
       /\ \A k \in DOMAIN apiResult.points :
             /\ SameAsE5(flexResult.val.points[k][1], flexResult.val.precision,
                         apiResult.points[k][1])
             /\ SameAsE5(flexResult.val.points[k][2], flexResult.val.precision,
                         apiResult.points[k][2])


----------------------------------------------------------------------------
(* Properties of the timings of extracted waypoints                        *)

\* C26: for the waypoints that extractWaypointsFromRouteSingleMode produced,
\* calculateWaypointTimings gives every waypoint a progress in [0,1] and
\* arrival times that do not decrease in waypoint order
C26_ArrivalsOrdered ==
    (job = "extracted" /\ waypointsWithTiming.ok)
    => LET timed == waypointsWithTiming.val
       IN  /\ \A k \in DOMAIN timed :
                 /\ timed[k].progress.num >= 0
                 /\ timed[k].progress.num <= timed[k].progress.den
           /\ \A k \in DOMAIN timed :
                 k > 1 => timed[k - 1].estimatedArrivalTime <= timed[k].estimatedArrivalTime


----------------------------------------------------------------------------
(* Properties of the report of a route                                     *)

\* C21: a report is always producible - whatever the lookups answered
\* (payload, HTTP error, payload without current record, rejected fetch) and
\* whatever the manager lacks, getRouteWeatherData resolves with a report
\* that has waypoints, analysis and summary, and does not reject
C21_ReportAlwaysProduced ==
    job = "reported"
    => /\ deduplicatedWeatherData.ok
       /\ deduplicatedWeatherData.val.def
       /\ {"waypoints", "analysis", "summary"}
             \subseteq DOMAIN deduplicatedWeatherData.val.val
       /\ {"overallScore", "risks", "recommendations", "alerts"}
             \subseteq DOMAIN deduplicatedWeatherData.val.val.analysis
       /\ Len(deduplicatedWeatherData.val.val.waypoints) > 0

\* a manager without lookup methods was answered with the dummy report
C21_Witness ==
    /\ job = "reported"
    /\ weatherManager = "none"
    /\ deduplicatedWeatherData.ok
    /\ deduplicatedWeatherData.val.val.analysis.overallScore = Number(70)
    /\ Len(deduplicatedWeatherData.val.val.waypoints) = 3

\* the lookups failed in three ways and the report was still built from
\* their samples
C21_WitnessLookups ==
    /\ job = "reported"
    /\ Len(weatherPromises) = 3
    /\ weatherPromises[1].answer = [ok |-> FALSE, json |-> NoFields]
    /\ weatherPromises[2].answer = [ok |-> TRUE, json |-> [hourly |-> <<>>]]
    /\ Has(weatherPromises[3].answer, "rejected")
    /\ deduplicatedWeatherData.ok
    /\ Len(deduplicatedWeatherData.val.val.waypoints) = 3

\* the value of the sample is carried by the point
CarriesSample(point, sample) ==
    \A f \in DOMAIN sample : f \in DOMAIN point /\ point[f] = sample[f]

\* C23: join before aggregation - the lookup method resolves, and the score
\* is computed, only when every lookup has settled, whatever the order; the
\* aggregated list has one sample per waypoint, and the sample at index i
\* is the one fetched for waypoint i
C23_JoinBeforeAggregation ==
    /\ (job = "fetching" /\ routeWeatherPromise.settled)
       => /\ \A i \in DOMAIN weatherPromises : weatherPromises[i].settled
          /\ \A i \in DOMAIN locationPromises : locationPromises[i].settled
          /\ Len(routeWeatherPromise.value) = Len(waypointsWithTiming.val)
          /\ \A i \in DOMAIN weatherPromises :
                CarriesSample(routeWeatherPromise.value[i], weatherPromises[i].value)
    /\ (job = "reported" /\ weatherAnalysis.done)
       => /\ \A i \in DOMAIN weatherPromises : weatherPromises[i].settled
          /\ Len(routeWeatherData) = Len(waypointsWithTiming.val)
          /\ \A i \in DOMAIN weatherPromises :
                /\ CarriesSample(routeWeatherData[i], weatherPromises[i].value)
                /\ routeWeatherData[i].waypoint = waypointsWithTiming.val[i]

\* three lookups had settled with different samples before the score was
\* computed, and each sample stayed at the index of its waypoint
C23_Witness ==
    /\ job = "reported"
    /\ weatherAnalysis.done
    /\ Len(weatherPromises) = 3
    /\ weatherPromises[1].value.temperature = 20
    /\ weatherPromises[2].value.temperature = 10
    /\ routeWeatherData[1].temperature = 20
    /\ routeWeatherData[2].temperature = 10
    /\ routeWeatherData[3].waypoint.type = "destination"


\* every showRouteByIndex call has finished
AllCallsFinished ==
    \A c \in DOMAIN routeCalls : routeCalls[c].pc # "awaiting"

\* C27: no stale weather under interleaving - once every showRouteByIndex
\* call has finished, currentRoute.weather is null or a report computed for
\* the route in currentRoute.data, and no call failed or drew the fallback
\* line because currentRoute was replaced or cleared while it was pending
C27_NoStaleWeather ==
    /\ (AllCallsFinished /\ currentRoute.def /\ currentRoute.val.weather.def)
       => currentRoute.val.weather \in RouteWeathers(currentRoute.val.data)
    /\ \A c \in DOMAIN routeCalls : routeCalls[c].pc # "failed"
    /\ mapLine.kind # "fallback"

====
